---- MODULE Spec2Model ----
(***************************************************************************)
(* Model of the datum synchronization engine: the Check and Fetch entry    *)
(* points (internal/core/engine.go), the lock store (readLock/writeLock),  *)
(* the configuration loader and the handler registry.                      *)
(*                                                                         *)
(* One process runs Check or Fetch at a time.  Between runs the            *)
(* environment (remote sources, target files) may change.  A run is split  *)
(* into: load, one step per configured dataset, and the steps of           *)
(* writeLock (write temporary file, rename).                               *)
(***************************************************************************)
EXTENDS Integers, Sequences, FiniteSets, TLC

\* ---------------------------------------------------------------- bounds
MaxRuns == 2          \* runs of Check/Fetch in one behaviour
MaxEvents == 1        \* environment events in one behaviour: a source or target
                      \* changes, a write of the lock fails, the process is killed

\* ---------------------------------------------------------------- domains
IDs == {"d1", "d2"}                 \* dataset ids of the configuration
Changing == {"d1"}                  \* datasets whose source and target change over time
Contents == {"a", "b"}              \* possible contents of a source / target file
NoFile == "<none>"                  \* a target path where no file exists
Unreadable == "<unreadable>"        \* a target that exists and cannot be opened
\* handler tags registered at start-up (the init functions of the test files)
Registered == {"mock", "primary", "secondary", "failprimary"}
SourceTypes == {"mock", "nope"}     \* source.type values used in configurations
\* policy field of a dataset: "" takes the default ("fail"), "audit" is not a policy
DatasetPolicies == {"", "update", "log", "audit"}
FetchErr == "simulated network error: connection timeout"
\* (policy, source.type) of the datasets of the configurations explored
DatasetKinds == {<<p, "mock">> : p \in DatasetPolicies} \cup {<<"update", "nope">>}

\* ---------------------------------------------------------------- pure helpers
\* Fingerprint a handler reports for remote content c (opaque to the engine).
FingerprintOf(c) == "fp-" \o c

\* HashFile: hex digest of the file's content, or "" with an error.
HashFile(t) == IF t \in {NoFile, Unreadable} THEN [h |-> "", err |-> TRUE]
               ELSE [h |-> "sha-" \o t, err |-> FALSE]

fileExists(t) == t # NoFile

\* (variant: the second string wins when it is not empty)
firstNonEmpty_PreferSecond(a, b) == IF Len(b) > 0 THEN b ELSE a

\* firstNonEmpty: a when it is not empty, b otherwise
firstNonEmpty(a, b) == IF Len(a) > 0 THEN a ELSE b

\* registry.Get: the handler bound to a tag, if any.
Get(kind) == kind \in Registered

\* ---------------------------------------------------------------- lock store
\* A *time.Time is modelled by the number of the run that set it; 0 is nil.
ZeroItem == [LocalSHA256 |-> "", RemoteFingerprint |-> "", CheckedAt |-> 0,
             InaccessibleAt |-> 0, InaccessibleError |-> ""]

NoItems == [x \in {} |-> ZeroItem]

FreshLock == [Version |-> 1, LastChecked |-> 0, Items |-> NoItems]

\* The YAML document of a lock file.  Fields tagged omitempty are written
\* only when non-empty: a document holds the keys present and their values,
\* strings and times apart.
StrKeys == {"local_sha256", "remote_fingerprint", "inaccessible_error"}
TimeKeys == {"checked_at", "inaccessible_at"}

ItemStr(it, k) == IF k = "local_sha256" THEN it.LocalSHA256
                  ELSE IF k = "remote_fingerprint" THEN it.RemoteFingerprint
                  ELSE it.InaccessibleError
ItemTime(it, k) == IF k = "checked_at" THEN it.CheckedAt ELSE it.InaccessibleAt

\* (variant: checked_at is not written to the file)
MarshalItem_NoCheckedAt(it) ==
    [strs  |-> [k \in {x \in StrKeys : ItemStr(it, x) # ""} |-> ItemStr(it, k)],
     times |-> [k \in {x \in TimeKeys \ {"checked_at"} : ItemTime(it, x) # 0}
                      |-> ItemTime(it, k)]]

\* yaml.Marshal of a LockItem
MarshalItem(it) ==
    [strs  |-> [k \in {x \in StrKeys : ItemStr(it, x) # ""} |-> ItemStr(it, k)],
     times |-> [k \in {x \in TimeKeys : ItemTime(it, x) # 0} |-> ItemTime(it, k)]]

\* yaml.Unmarshal into a LockItem: a key that is absent leaves the zero value
UnmarshalItem(d) ==
    LET str(k) == IF k \in DOMAIN d.strs THEN d.strs[k] ELSE ""
        time(k) == IF k \in DOMAIN d.times THEN d.times[k] ELSE 0
    IN  [LocalSHA256 |-> str("local_sha256"),
         RemoteFingerprint |-> str("remote_fingerprint"),
         CheckedAt |-> time("checked_at"),
         InaccessibleAt |-> time("inaccessible_at"),
         InaccessibleError |-> str("inaccessible_error")]

\* yaml.Marshal of a Lock: version, last_checked (omitempty), items
MarshalLock(l) ==
    [version |-> l.Version,
     times   |-> [k \in {x \in {"last_checked"} : l.LastChecked # 0} |-> l.LastChecked],
     items   |-> [id \in DOMAIN l.Items |-> MarshalItem(l.Items[id])]]

\* yaml.Unmarshal into a Lock
UnmarshalLock(d) ==
    [Version |-> d.version,
     LastChecked |-> IF "last_checked" \in DOMAIN d.times THEN d.times["last_checked"] ELSE 0,
     Items |-> [id \in DOMAIN d.items |-> UnmarshalItem(d.items[id])]]

AbsentFile == [kind |-> "absent", doc |-> MarshalLock(FreshLock)]
MalformedFile == [kind |-> "malformed", doc |-> MarshalLock(FreshLock)]

\* The bytes of a well-formed lock file holding l.
Marshal(l) == [kind |-> "ok", doc |-> MarshalLock(l)]

\* A prefix of the bytes written so far: not a well-formed lock file.
Truncated(f) == [kind |-> "partial", doc |-> f.doc]

\* (variant: a missing file is reported like an unreadable one)
readLock_MissingIsError(f) ==
    IF f.kind = "ok" THEN [lock |-> UnmarshalLock(f.doc), isNil |-> FALSE, err |-> FALSE]
    ELSE [lock |-> FreshLock, isNil |-> TRUE, err |-> TRUE]

\* readLock: os.ReadFile fails (the file is missing, or it exists and cannot be
\* read) -> fresh lock, no error; unparsable -> nil, error.
readLock(f) ==
    IF f.kind \in {"absent", "unreadable"} THEN [lock |-> FreshLock, isNil |-> FALSE, err |-> FALSE]
    ELSE IF f.kind = "ok" THEN [lock |-> UnmarshalLock(f.doc), isNil |-> FALSE, err |-> FALSE]
    ELSE [lock |-> FreshLock, isNil |-> TRUE, err |-> TRUE]

\* ---------------------------------------------------------------- configuration
\* readConfig: a configuration file that fails to load, or the parsed
\* configuration with Defaults.Policy defaulted to "fail".
\* A dataset carries the type of its single `source` ("" when the field is
\* not given) and the types of its `sources` list (<<>> when not given).
SourceLists == {<<>>, <<"mock">>, <<"primary">>, <<"failprimary", "secondary">>,
                <<"failprimary", "failprimary">>, <<"primary", "secondary">>,
                <<"nope", "secondary">>}
DatasetCfgs == [id : IDs, policy : DatasetPolicies, type : SourceTypes \cup {""},
                sources : SourceLists]

\* (variant: a dataset giving both `source` and `sources` is let through)
validateDataset_AllowsBoth(d) ==
    LET hasSource == d.type # ""
        hasSources == Len(d.sources) > 0
    IN  hasSource \/ hasSources

\* validateDataset: TRUE when the dataset is accepted (the error is nil).
validateDataset(d) ==
    LET hasSource == d.type # ""
        hasSources == Len(d.sources) > 0
    IN  IF ~hasSource /\ ~hasSources THEN FALSE
        ELSE IF hasSource /\ hasSources THEN FALSE
        ELSE TRUE

\* Dataset.GetSources: the `sources` list, or the single source wrapped in a list.
GetSources(d) == IF Len(d.sources) > 0 THEN d.sources ELSE <<d.type>>

\* (variant: the datasets are not validated when the configuration is loaded)
readConfig_NoValidation(file) ==
    IF ~file.valid THEN [err |-> TRUE, defaults |-> "", datasets |-> <<>>]
    ELSE [err |-> FALSE,
          defaults |-> IF file.defaults = "" THEN "fail" ELSE file.defaults,
          datasets |-> file.datasets]

\* readConfig: read and parse the file, default the policy, validate every dataset
readConfig(file) ==
    IF ~file.valid THEN [err |-> TRUE, defaults |-> "", datasets |-> <<>>]
    ELSE IF \E k \in 1..Len(file.datasets) : ~validateDataset(file.datasets[k])
    THEN [err |-> TRUE, defaults |-> "", datasets |-> <<>>]
    ELSE [err |-> FALSE,
          defaults |-> IF file.defaults = "" THEN "fail" ELSE file.defaults,
          datasets |-> file.datasets]

VARIABLES
    cfgFile,     \* the configuration file on disk
    lockFile,    \* the file at the lock path
    tmpFile,     \* the file at the lock path + ".tmp"
    remote,      \* per dataset: state of its remote source
    target,      \* per dataset: content of its target file, or NoFile
    pc,          \* position of the process
    mode,        \* "check" or "fetch": the entry point being run
    which,       \* ids passed to Fetch (empty = all)
    lk,          \* in-memory *Lock of the run
    now,         \* time.Now() of the run (run number)
    exit,        \* the exit variable of the run / its returned status
    i,           \* index of the next dataset of cfg.Datasets
    runs,        \* number of runs started
    events,      \* number of environment events so far
    hist         \* observations of the current run (not program state)

vars == <<cfgFile, lockFile, tmpFile, remote, target, pc, mode, which, lk, now,
          exit, i, runs, events, hist>>

Cfg == readConfig(cfgFile)
Datasets == Cfg.datasets
ds == Datasets[i]
policy == firstNonEmpty(ds.policy, Cfg.defaults)

Stopped == {"idle", "done", "panicked", "crashed"}

\* ---------------------------------------------------------------- handler calls
\* f.Fingerprint(ctx, ds.Source): the fingerprint of the remote content, or an error.
Fingerprint(id) ==
    IF remote[id].fpOk THEN [fp |-> FingerprintOf(remote[id].content), err |-> FALSE]
    ELSE [fp |-> "", err |-> TRUE]

\* f.Fetch(ctx, ds.Source, ds.Target): on success the target holds the remote
\* content; on failure the target is left as it was.
FetchFails(id) == ~remote[id].fetchOk
Fetched(id) == [target EXCEPT ![id] = remote[id].content]

\* ---------------------------------------------------------------- lock items
HasItem(items, id) == id \in DOMAIN items
SetItem(items, id, item) ==
    [x \in (DOMAIN items) \cup {id} |-> IF x = id THEN item ELSE items[x]]
ItemOrZero(items, id) == IF HasItem(items, id) THEN items[id] ELSE ZeroItem

\* "if exit == 0 { exit = s }"
Escalate(e, s) == IF e = 0 THEN s ELSE e

\* (variant: the failure is recorded on a new item, dropping the pinned values)
RecordInaccessible_Fresh(items, id, t) ==
    SetItem(items, id, [ZeroItem EXCEPT
                            !.InaccessibleAt = t, !.InaccessibleError = FetchErr])

\* item.InaccessibleAt = &now; item.InaccessibleError = err.Error()
\* on the existing item, or on a new zero item when there is none.
RecordInaccessible(items, id, t) ==
    SetItem(items, id, [ItemOrZero(items, id) EXCEPT
                            !.InaccessibleAt = t, !.InaccessibleError = FetchErr])

\* &LockItem{LocalSHA256: h, RemoteFingerprint: fp, CheckedAt: &now,
\*           InaccessibleAt: nil, InaccessibleError: ""}
NewItem(h, fp, t) ==
    [LocalSHA256 |-> h, RemoteFingerprint |-> fp, CheckedAt |-> t,
     InaccessibleAt |-> 0, InaccessibleError |-> ""]

\* item.LocalSHA256 = localHash; item.RemoteFingerprint = fp; item.CheckedAt = &now
Touch(items, id, h, fp, t) ==
    SetItem(items, id, [ItemOrZero(items, id) EXCEPT
                            !.LocalSHA256 = h, !.RemoteFingerprint = fp, !.CheckedAt = t])

\* ---------------------------------------------------------------- observations
NoOutcome == [x \in IDs |-> "none"]
\*   lk0, file0, target0 : lock as loaded, lock file and targets at the start of the run
\*   fetched             : ids on which the handler's Fetch was invoked in the run
\*   raised              : severities raised in the run
\*   outcome             : per dataset, how its evaluation ended in the run
\*   saves, saved        : calls of writeLock in the run; whether the rename happened
\*   prev, prevOutcome   : entry point and outcomes of the previous run, if it saved
\*   stable              : no environment change since the previous run started
\*   dirty               : the environment changed after the run
FreshHist(prev, prevOutcome, stable) ==
    [lk0 |-> FreshLock, file0 |-> lockFile, target0 |-> target,
     fetched |-> {}, raised |-> {}, outcome |-> NoOutcome,
     saves |-> 0, saved |-> FALSE, prev |-> prev, prevOutcome |-> prevOutcome,
     stable |-> stable, dirty |-> FALSE]

\* the dataset id got outcome o, raising severity s
Note(id, o, s) ==
    [hist EXCEPT !.outcome[id] = o, !.raised = @ \cup {s}]
NoteFetch(h, id) == [h EXCEPT !.fetched = @ \cup {id}]

\* what the previous run was, as seen by the next one
PrevKind == IF pc = "done" /\ hist.saved THEN mode ELSE "other"

ValidConfigs ==
    { [valid |-> TRUE, defaults |-> "",
       datasets |-> << [id |-> "d1", policy |-> k1[1], type |-> k1[2], sources |-> <<>>],
                       [id |-> "d2", policy |-> k2[1], type |-> k2[2], sources |-> <<>>] >>] :
      k1 \in DatasetKinds, k2 \in DatasetKinds }

\* A lock file as a user commits it: every dataset pinned to content "a",
\* no timestamps (the form of the lock files written by the tests).
PinnedLock ==
    [Version |-> 1, LastChecked |-> 0,
     Items |-> [d \in IDs |-> [ZeroItem EXCEPT !.LocalSHA256 = HashFile("a").h,
                                               !.RemoteFingerprint = FingerprintOf("a")]]]

InvalidConfig == [valid |-> FALSE, defaults |-> "", datasets |-> <<>>]

Init ==
    /\ cfgFile \in ValidConfigs \cup {InvalidConfig}
    /\ lockFile \in {AbsentFile, MalformedFile, Marshal(PinnedLock)}
    /\ tmpFile = AbsentFile
    /\ remote = [d \in IDs |-> [content |-> "a", fpOk |-> TRUE, fetchOk |-> TRUE]]
    /\ target \in {[d \in IDs |-> NoFile], [d \in IDs |-> "a"]}
    /\ lockFile.kind # "ok" => target = [d \in IDs |-> NoFile]
    /\ pc = "idle"
    /\ mode = "check"
    /\ which = {}
    /\ lk = FreshLock
    /\ now = 0
    /\ exit = 0
    /\ i = 1
    /\ runs = 0
    /\ events = 0
    /\ hist = FreshHist("other", NoOutcome, FALSE)

\* ---------------------------------------------------------------- start of a run
\* Common prelude of Check and Fetch: readConfig, readLock, time.Now, exit := 0.
\*   config error        -> return 2, nothing else happens
\*   readLock returns nil -> lk.Items dereferences a nil *Lock: the run panics
Begin(m, ids) ==
    /\ pc \in Stopped
    /\ runs < MaxRuns
    /\ runs' = runs + 1
    /\ mode' = m
    /\ which' = ids
    /\ hist' = [FreshHist(PrevKind, hist.outcome, ~hist.dirty) EXCEPT
                   !.lk0 = readLock(lockFile).lock]
    /\ IF Cfg.err
       THEN /\ pc' = "done"
            /\ exit' = 2
            /\ UNCHANGED <<lk, now, i>>
       ELSE IF readLock(lockFile).isNil
       THEN /\ pc' = "panicked"
            /\ UNCHANGED <<lk, now, exit, i>>
       ELSE /\ pc' = "loop"
            /\ lk' = readLock(lockFile).lock
            /\ now' = runs + 1
            /\ exit' = 0
            /\ i' = 1
    /\ UNCHANGED <<cfgFile, lockFile, tmpFile, remote, target, events>>

StartCheck == Begin("check", {})

StartFetch == \E ids \in {{}, {"d1"}} : Begin("fetch", ids)

InLoop(m) == pc = "loop" /\ mode = m /\ i <= Len(Datasets)

\* ---------------------------------------------------------------- Check, one dataset
CheckUnknownHandler ==
    /\ InLoop("check")
    /\ ~Get(ds.type)
    /\ exit' = Escalate(exit, 2)
    /\ i' = i + 1
    /\ hist' = Note(ds.id, "unknown-type", 2)
    /\ UNCHANGED <<cfgFile, lockFile, tmpFile, remote, target, pc, mode, which, lk,
                   now, runs, events>>

CheckFingerprintError ==
    /\ InLoop("check")
    /\ Get(ds.type)
    /\ Fingerprint(ds.id).err
    /\ exit' = Escalate(exit, 1)
    /\ i' = i + 1
    /\ hist' = Note(ds.id, "fingerprint-error", 1)
    /\ UNCHANGED <<cfgFile, lockFile, tmpFile, remote, target, pc, mode, which, lk,
                   now, runs, events>>

\* the dataset reaches the policy switch with fingerprint fp
Evaluated == InLoop("check") /\ Get(ds.type) /\ ~Fingerprint(ds.id).err
fp == Fingerprint(ds.id).fp
localHash == IF fileExists(target[ds.id]) THEN HashFile(target[ds.id]).h ELSE ""
\* (variant: a missing target file makes the dataset stale)
stale_OrTargetMissing ==
    IF ~HasItem(lk.Items, ds.id) THEN TRUE
    ELSE IF lk.Items[ds.id].RemoteFingerprint # fp THEN TRUE
    ELSE ~fileExists(target[ds.id])

\* (variant: a target whose hash differs from the recorded one makes the
\* dataset stale)
stale_OrLocalModified ==
    IF ~HasItem(lk.Items, ds.id) THEN TRUE
    ELSE IF lk.Items[ds.id].RemoteFingerprint # fp THEN TRUE
    ELSE lk.Items[ds.id].LocalSHA256 # localHash

\* stale := (item == nil) || (item.RemoteFingerprint != fp)
stale == IF HasItem(lk.Items, ds.id) THEN lk.Items[ds.id].RemoteFingerprint # fp ELSE TRUE

\* (variant: update refreshes on every run)
NeedsRefresh_Always == TRUE

\* (variant: a missing target file alone does not trigger a refresh)
NeedsRefresh_StaleOnly == stale

\* case "update": if stale || !fileExists(ds.Target)
NeedsRefresh == IF stale THEN TRUE ELSE ~fileExists(target[ds.id])

\* (variant: a failed fetch ends the loop over the datasets)
CheckUpdateFetchFailed_Aborts ==
    /\ Evaluated /\ policy = "update"
    /\ NeedsRefresh
    /\ FetchFails(ds.id)
    /\ lk' = [lk EXCEPT !.Items = RecordInaccessible(lk.Items, ds.id, now)]
    /\ exit' = Escalate(exit, 1)
    /\ i' = Len(Datasets) + 1
    /\ hist' = NoteFetch(Note(ds.id, "fetch-failed", 1), ds.id)
    /\ UNCHANGED <<cfgFile, lockFile, tmpFile, remote, target, pc, mode, which,
                   now, runs, events>>

\* case "update", the fetch fails: the failure is recorded in the entry
CheckUpdateFetchFailed ==
    /\ Evaluated /\ policy = "update"
    /\ NeedsRefresh
    /\ FetchFails(ds.id)
    /\ lk' = [lk EXCEPT !.Items = RecordInaccessible(lk.Items, ds.id, now)]
    /\ exit' = Escalate(exit, 1)
    /\ i' = i + 1
    /\ hist' = NoteFetch(Note(ds.id, "fetch-failed", 1), ds.id)
    /\ UNCHANGED <<cfgFile, lockFile, tmpFile, remote, target, pc, mode, which,
                   now, runs, events>>

CheckUpdateRefresh ==
    /\ Evaluated /\ policy = "update"
    /\ NeedsRefresh
    /\ ~FetchFails(ds.id)
    /\ target' = Fetched(ds.id)
    /\ lk' = [lk EXCEPT !.Items =
                 SetItem(lk.Items, ds.id, NewItem(HashFile(target'[ds.id]).h, fp, now))]
    /\ i' = i + 1
    /\ hist' = NoteFetch(Note(ds.id, "refreshed", 0), ds.id)
    /\ UNCHANGED <<cfgFile, lockFile, tmpFile, remote, pc, mode, which, now, exit,
                   runs, events>>

CheckUpdateUpToDate ==
    /\ Evaluated /\ policy = "update"
    /\ ~NeedsRefresh
    /\ lk' = [lk EXCEPT !.Items = Touch(lk.Items, ds.id, localHash, fp, now)]
    /\ i' = i + 1
    /\ hist' = Note(ds.id, "up-to-date", 0)
    /\ UNCHANGED <<cfgFile, lockFile, tmpFile, remote, target, pc, mode, which, now,
                   exit, runs, events>>

\* (variant: log escalates like fail)
CheckLog_Escalating ==
    /\ Evaluated /\ policy = "log"
    /\ exit' = IF stale THEN 1 ELSE exit
    /\ i' = i + 1
    /\ hist' = Note(ds.id, IF stale THEN "stale" ELSE "up-to-date", 0)
    /\ UNCHANGED <<cfgFile, lockFile, tmpFile, remote, target, pc, mode, which, lk,
                   now, runs, events>>

\* case "log": a status line only; the lock is not touched.
CheckLog ==
    /\ Evaluated /\ policy = "log"
    /\ i' = i + 1
    /\ hist' = Note(ds.id, IF stale THEN "stale" ELSE "up-to-date", 0)
    /\ UNCHANGED <<cfgFile, lockFile, tmpFile, remote, target, pc, mode, which, lk,
                   now, exit, runs, events>>

\* case "fail": exit = 1 when stale; the lock is not touched.
CheckFail ==
    /\ Evaluated /\ policy = "fail"
    /\ exit' = IF stale THEN 1 ELSE exit
    /\ i' = i + 1
    /\ hist' = IF stale THEN Note(ds.id, "drift", 1) ELSE Note(ds.id, "up-to-date", 0)
    /\ UNCHANGED <<cfgFile, lockFile, tmpFile, remote, target, pc, mode, which, lk,
                   now, runs, events>>

\* (variant: an unknown policy is reported by the warning only)
CheckUnknownPolicy_WarningOnly ==
    /\ Evaluated /\ policy \notin {"update", "log", "fail"}
    /\ i' = i + 1
    /\ hist' = Note(ds.id, "warned", 0)
    /\ UNCHANGED <<cfgFile, lockFile, tmpFile, remote, target, pc, mode, which, lk,
                   now, exit, runs, events>>

\* default: unknown policy, warning, exit = 1 when stale.
CheckUnknownPolicy ==
    /\ Evaluated /\ policy \notin {"update", "log", "fail"}
    /\ exit' = IF stale THEN 1 ELSE exit
    /\ i' = i + 1
    /\ hist' = IF stale THEN Note(ds.id, "drift", 1) ELSE Note(ds.id, "warned", 0)
    /\ UNCHANGED <<cfgFile, lockFile, tmpFile, remote, target, pc, mode, which, lk,
                   now, runs, events>>

\* ---------------------------------------------------------------- Fetch, one dataset
\* (variant: the id list is not consulted)
Selected_All == InLoop("fetch")

\* not skipped: len(which) == 0, or which[ds.ID]
Selected == InLoop("fetch") /\ (Cardinality(which) > 0 => ds.id \in which)

FetchSkip ==
    /\ InLoop("fetch")
    /\ Cardinality(which) > 0 /\ ds.id \notin which
    /\ i' = i + 1
    /\ UNCHANGED <<cfgFile, lockFile, tmpFile, remote, target, pc, mode, which, lk,
                   now, exit, runs, events, hist>>

FetchUnknownHandler ==
    /\ Selected
    /\ ~Get(ds.type)
    /\ exit' = Escalate(exit, 2)
    /\ i' = i + 1
    /\ hist' = Note(ds.id, "unknown-type", 2)
    /\ UNCHANGED <<cfgFile, lockFile, tmpFile, remote, target, pc, mode, which, lk,
                   now, runs, events>>

FetchFailed ==
    /\ Selected
    /\ Get(ds.type)
    /\ FetchFails(ds.id)
    /\ lk' = [lk EXCEPT !.Items = RecordInaccessible(lk.Items, ds.id, now)]
    /\ exit' = Escalate(exit, 1)
    /\ i' = i + 1
    /\ hist' = NoteFetch(Note(ds.id, "fetch-failed", 1), ds.id)
    /\ UNCHANGED <<cfgFile, lockFile, tmpFile, remote, target, pc, mode, which,
                   now, runs, events>>

\* the fetch succeeded but the fingerprint after it cannot be computed
FetchFingerprintError ==
    /\ Selected
    /\ Get(ds.type)
    /\ ~FetchFails(ds.id)
    /\ Fingerprint(ds.id).err
    /\ target' = Fetched(ds.id)
    /\ exit' = Escalate(exit, 1)
    /\ i' = i + 1
    /\ hist' = NoteFetch(Note(ds.id, "fingerprint-error", 1), ds.id)
    /\ UNCHANGED <<cfgFile, lockFile, tmpFile, remote, pc, mode, which, lk,
                   now, runs, events>>

FetchOk ==
    /\ Selected
    /\ Get(ds.type)
    /\ ~FetchFails(ds.id)
    /\ ~Fingerprint(ds.id).err
    /\ target' = Fetched(ds.id)
    /\ lk' = [lk EXCEPT !.Items =
                 SetItem(lk.Items, ds.id,
                         NewItem(HashFile(target'[ds.id]).h, Fingerprint(ds.id).fp, now))]
    /\ i' = i + 1
    /\ hist' = NoteFetch(Note(ds.id, "refreshed", 0), ds.id)
    /\ UNCHANGED <<cfgFile, lockFile, tmpFile, remote, pc, mode, which, now, exit,
                   runs, events>>

\* ---------------------------------------------------------------- end of a run: writeLock
\* After the loop: lk.Version = 1; lk.LastChecked = &now; writeLock(lockPath, lk).
\* writeLock: yaml.Marshal, os.WriteFile(path + ".tmp"), os.Rename(tmp, path).
\* (variant: the lock is written as soon as the first dataset is done)
LoopDone_Early == pc = "loop" /\ i > 1

LoopDone == pc = "loop" /\ i > Len(Datasets)
\* (variant: the lock saved holds the entries of the configured datasets only)
Stamped_Pruned ==
    [Version |-> 1, LastChecked |-> now,
     Items |-> [d \in {x \in DOMAIN lk.Items : \E k \in 1..Len(Datasets) : Datasets[k].id = x}
                    |-> lk.Items[d]]]

\* lk.Version = 1; lk.LastChecked = &now
Stamped == [lk EXCEPT !.Version = 1, !.LastChecked = now]

\* (variant: the bytes are written straight to the lock path)
SaveBegin_InPlace ==
    /\ LoopDone
    /\ lk' = Stamped
    /\ lockFile' = Truncated(Marshal(lk'))
    /\ pc' = "writing"
    /\ hist' = [hist EXCEPT !.saves = @ + 1]
    /\ UNCHANGED <<cfgFile, tmpFile, remote, target, mode, which, now, exit, i,
                   runs, events>>

\* os.WriteFile starts writing the temporary file.
SaveBegin ==
    /\ LoopDone
    /\ lk' = Stamped
    /\ tmpFile' = Truncated(Marshal(lk'))
    /\ pc' = "writing"
    /\ hist' = [hist EXCEPT !.saves = @ + 1]
    /\ UNCHANGED <<cfgFile, lockFile, remote, target, mode, which, now, exit, i,
                   runs, events>>

\* (variant: a failed write of the lock is reported as a top-level error)
SaveFails_TopLevel ==
    /\ LoopDone
    /\ events < MaxEvents
    /\ events' = events + 1
    /\ lk' = Stamped
    /\ \E f \in {tmpFile, Truncated(Marshal(lk'))} : tmpFile' = f
    /\ exit' = 2
    /\ pc' = "done"
    /\ hist' = [hist EXCEPT !.saves = @ + 1, !.raised = @ \cup {1}]
    /\ UNCHANGED <<cfgFile, lockFile, remote, target, mode, which, now, i,
                   runs>>

\* os.WriteFile returns an error: writeLock returns it, "if exit == 0 { exit = 1 }".
SaveFails ==
    /\ LoopDone
    /\ events < MaxEvents
    /\ events' = events + 1
    /\ lk' = Stamped
    /\ \E f \in {tmpFile, Truncated(Marshal(lk'))} : tmpFile' = f
    /\ exit' = Escalate(exit, 1)
    /\ pc' = "done"
    /\ hist' = [hist EXCEPT !.saves = @ + 1, !.raised = @ \cup {1}]
    /\ UNCHANGED <<cfgFile, lockFile, remote, target, mode, which, now, i,
                   runs>>

\* os.WriteFile has written all the bytes.
WriteTmpDone ==
    /\ pc = "writing"
    /\ tmpFile' = Marshal(lk)
    /\ pc' = "written"
    /\ UNCHANGED <<cfgFile, lockFile, remote, target, mode, which, lk, now, exit, i,
                   runs, events, hist>>

\* os.Rename(tmp, path): the lock path now names the temporary file's content.
Rename ==
    /\ pc = "written"
    /\ lockFile' = tmpFile
    /\ tmpFile' = AbsentFile
    /\ pc' = "done"
    /\ hist' = [hist EXCEPT !.saved = TRUE]
    /\ UNCHANGED <<cfgFile, remote, target, mode, which, lk, now, exit, i,
                   runs, events>>

RenameFails ==
    /\ pc = "written"
    /\ events < MaxEvents
    /\ events' = events + 1
    /\ exit' = Escalate(exit, 1)
    /\ pc' = "done"
    /\ hist' = [hist EXCEPT !.raised = @ \cup {1}]
    /\ UNCHANGED <<cfgFile, lockFile, tmpFile, remote, target, mode, which, lk, now, i,
                   runs>>

\* The process is killed while writeLock is between WriteFile and Rename.
Kill ==
    /\ pc \in {"writing", "written"}
    /\ events < MaxEvents
    /\ events' = events + 1
    /\ pc' = "crashed"
    /\ UNCHANGED <<cfgFile, lockFile, tmpFile, remote, target, mode, which, lk, now,
                   exit, i, runs, hist>>

\* ---------------------------------------------------------------- environment
EnvStep ==
    /\ pc \in Stopped
    /\ events < MaxEvents
    /\ events' = events + 1
    /\ hist' = [hist EXCEPT !.dirty = TRUE]
    /\ UNCHANGED <<cfgFile, lockFile, tmpFile, pc, mode, which, lk, now, exit, i, runs>>

\* the remote content of a dataset changes
RemoteChanges ==
    /\ EnvStep
    /\ \E d \in Changing, c \in Contents :
          /\ c # remote[d].content
          /\ remote' = [remote EXCEPT ![d].content = c]
    /\ UNCHANGED target

\* a source becomes (un)available for fingerprinting and/or fetching
AvailabilityChanges ==
    /\ EnvStep
    /\ \E d \in Changing, a \in BOOLEAN, b \in BOOLEAN :
          /\ <<a, b>> # <<remote[d].fpOk, remote[d].fetchOk>>
          /\ remote' = [remote EXCEPT ![d].fpOk = a, ![d].fetchOk = b]
    /\ UNCHANGED target

\* a target file is deleted
TargetRemoved ==
    /\ EnvStep
    /\ \E d \in Changing :
          /\ fileExists(target[d])
          /\ target' = [target EXCEPT ![d] = NoFile]
    /\ UNCHANGED remote

\* a target file is modified locally
TargetEdited ==
    /\ EnvStep
    /\ \E d \in Changing, c \in Contents :
          /\ fileExists(target[d]) /\ c # target[d]
          /\ target' = [target EXCEPT ![d] = c]
    /\ UNCHANGED remote

\* ---------------------------------------------------------------- specification
Next ==
    \/ StartCheck
    \/ StartFetch
    \/ CheckUnknownHandler
    \/ CheckFingerprintError
    \/ CheckUpdateFetchFailed
    \/ CheckUpdateRefresh
    \/ CheckUpdateUpToDate
    \/ CheckLog
    \/ CheckFail
    \/ CheckUnknownPolicy
    \/ FetchSkip
    \/ FetchUnknownHandler
    \/ FetchFailed
    \/ FetchFingerprintError
    \/ FetchOk
    \/ SaveBegin
    \/ SaveFails
    \/ WriteTmpDone
    \/ Rename
    \/ RenameFails
    \/ Kill
    \/ RemoteChanges
    \/ AvailabilityChanges
    \/ TargetRemoved
    \/ TargetEdited

Spec == Init /\ [][Next]_vars

\* ---------------------------------------------------------------- the pinup-era engine
\* internal/core/engine.go as kept from the pinup skeleton: the same loop, but
\* "log" and "fail" rewrite the lock item after reporting, and a failed fetch
\* is not recorded in the lock.
PinupCheckUpdateFetchFailed ==
    /\ Evaluated /\ policy = "update"
    /\ NeedsRefresh
    /\ FetchFails(ds.id)
    /\ exit' = Escalate(exit, 1)
    /\ i' = i + 1
    /\ hist' = NoteFetch(Note(ds.id, "fetch-failed", 1), ds.id)
    /\ UNCHANGED <<cfgFile, lockFile, tmpFile, remote, target, pc, mode, which, lk,
                   now, runs, events>>

PinupCheckLog ==
    /\ Evaluated /\ policy = "log"
    /\ lk' = [lk EXCEPT !.Items = Touch(lk.Items, ds.id, localHash, fp, now)]
    /\ i' = i + 1
    /\ hist' = Note(ds.id, IF stale THEN "stale" ELSE "up-to-date", 0)
    /\ UNCHANGED <<cfgFile, lockFile, tmpFile, remote, target, pc, mode, which,
                   now, exit, runs, events>>

PinupCheckFail ==
    /\ Evaluated /\ policy = "fail"
    /\ exit' = IF stale THEN 1 ELSE exit
    /\ lk' = [lk EXCEPT !.Items = Touch(lk.Items, ds.id, localHash, fp, now)]
    /\ i' = i + 1
    /\ hist' = IF stale THEN Note(ds.id, "drift", 1) ELSE Note(ds.id, "up-to-date", 0)
    /\ UNCHANGED <<cfgFile, lockFile, tmpFile, remote, target, pc, mode, which,
                   now, runs, events>>

NextPinup ==
    \/ StartCheck
    \/ CheckUnknownHandler
    \/ CheckFingerprintError
    \/ PinupCheckUpdateFetchFailed
    \/ CheckUpdateRefresh
    \/ CheckUpdateUpToDate
    \/ PinupCheckLog
    \/ PinupCheckFail
    \/ CheckUnknownPolicy
    \/ SaveBegin
    \/ WriteTmpDone
    \/ Rename
    \/ RemoteChanges
    \/ AvailabilityChanges
    \/ TargetRemoved
    \/ TargetEdited

SpecPinup == Init /\ [][NextPinup]_vars

\* ---------------------------------------------------------------- datasets with a sources list
\* Configurations in which d2 gives its sources as a `sources` list (or gives
\* both fields, or none); d1 has a single source.
SingleKinds == {<<p, "mock", <<>> >> : p \in DatasetPolicies}

ListKinds ==
    {<<"update", "", <<"failprimary", "secondary">> >>,
     <<"update", "", <<"primary", "secondary">> >>,
     <<"update", "", <<"nope", "secondary">> >>,
     <<"update", "", <<"failprimary", "failprimary">> >>,
     <<"log", "", <<"failprimary", "failprimary">> >>,
     <<"update", "", <<"mock">> >>,
     <<"", "", <<"mock">> >>,
     <<"update", "mock", <<"primary">> >>,
     <<"update", "", <<>> >>}

SourcesConfigs ==
    { [valid |-> TRUE, defaults |-> "",
       datasets |-> << [id |-> "d1", policy |-> k1[1], type |-> k1[2], sources |-> k1[3]],
                       [id |-> "d2", policy |-> k2[1], type |-> k2[2], sources |-> k2[3]] >>] :
      k1 \in SingleKinds, k2 \in ListKinds }

InitSources ==
    /\ cfgFile \in SourcesConfigs
    /\ lockFile \in {AbsentFile, Marshal(PinnedLock)}
    /\ tmpFile = AbsentFile
    /\ remote = [d \in IDs |-> [content |-> "a", fpOk |-> TRUE, fetchOk |-> TRUE]]
    /\ target \in {[d \in IDs |-> NoFile], [d \in IDs |-> "a"]}
    /\ lockFile.kind # "ok" => target = [d \in IDs |-> NoFile]
    /\ pc = "idle"
    /\ mode = "check"
    /\ which = {}
    /\ lk = FreshLock
    /\ now = 0
    /\ exit = 0
    /\ i = 1
    /\ runs = 0
    /\ events = 0
    /\ hist = FreshHist("other", NoOutcome, FALSE)

SpecSources == InitSources /\ [][Next]_vars

\* ---------------------------------------------------------------- entries left from earlier configurations
\* A lock file written under an earlier configuration: besides the pinned
\* entries of d1 and d2 it holds the entry of a dataset "old" that is no
\* longer configured.  The configurations list d1 alone, or d1 and d2.
OrphanLock ==
    [PinnedLock EXCEPT !.Items =
        SetItem(PinnedLock.Items, "old",
                [ZeroItem EXCEPT !.LocalSHA256 = HashFile("b").h,
                                 !.RemoteFingerprint = FingerprintOf("b"),
                                 !.InaccessibleAt = 1,
                                 !.InaccessibleError = FetchErr])]

OrphanConfigs ==
    { [valid |-> TRUE, defaults |-> "",
       datasets |-> << [id |-> "d1", policy |-> k[1], type |-> k[2], sources |-> <<>>] >>] :
      k \in DatasetKinds }
    \cup
    { [valid |-> TRUE, defaults |-> "",
       datasets |-> << [id |-> "d1", policy |-> k1[1], type |-> k1[2], sources |-> <<>>],
                       [id |-> "d2", policy |-> k2, type |-> "mock", sources |-> <<>>] >>] :
      k1 \in DatasetKinds, k2 \in {"", "update"} }

InitOrphans ==
    /\ cfgFile \in OrphanConfigs
    /\ lockFile = Marshal(OrphanLock)
    /\ tmpFile = AbsentFile
    /\ remote = [d \in IDs |-> [content |-> "a", fpOk |-> TRUE, fetchOk |-> TRUE]]
    /\ target \in {[d \in IDs |-> NoFile], [d \in IDs |-> "a"]}
    /\ pc = "idle"
    /\ mode = "check"
    /\ which = {}
    /\ lk = FreshLock
    /\ now = 0
    /\ exit = 0
    /\ i = 1
    /\ runs = 0
    /\ events = 0
    /\ hist = FreshHist("other", NoOutcome, FALSE)

SpecOrphans == InitOrphans /\ [][Next]_vars

\* ---------------------------------------------------------------- writeLock, then readLock
\* The lock store on its own: writeLock of a lock state to a path, then
\* readLock of that path (as TestWriteLock does).
LockItems ==
    [LocalSHA256 : {"", "sha-a"}, RemoteFingerprint : {"", "fp-a"}, CheckedAt : {0, 1},
     InaccessibleAt : {0, 1}, InaccessibleError : {"", FetchErr}]

ItemMaps == UNION {[S -> LockItems] : S \in SUBSET IDs}

LockStates == [Version : {0, 1}, LastChecked : {0, 1}, Items : ItemMaps]

InitLock ==
    /\ cfgFile = InvalidConfig
    /\ lockFile = AbsentFile
    /\ tmpFile = AbsentFile
    /\ remote = [d \in IDs |-> [content |-> "a", fpOk |-> TRUE, fetchOk |-> TRUE]]
    /\ target = [d \in IDs |-> NoFile]
    /\ pc = "lock-write"
    /\ mode = "check"
    /\ which = {}
    /\ lk \in LockStates
    /\ now = 0
    /\ exit = 0
    /\ i = 1
    /\ runs = 0
    /\ events = 0
    /\ hist = [FreshHist("other", NoOutcome, FALSE) EXCEPT !.lk0 = lk]

\* writeLock(path, lk) returning nil: the temporary file was written and renamed
WriteLockCall ==
    /\ pc = "lock-write"
    /\ lockFile' = Marshal(lk)
    /\ pc' = "lock-read"
    /\ UNCHANGED <<cfgFile, tmpFile, remote, target, mode, which, lk, now, exit, i,
                   runs, events, hist>>

\* lk, err = readLock(path)
ReadLockCall ==
    /\ pc = "lock-read"
    /\ ~readLock(lockFile).isNil
    /\ lk' = readLock(lockFile).lock
    /\ pc' = "lock-done"
    /\ UNCHANGED <<cfgFile, lockFile, tmpFile, remote, target, mode, which, now, exit, i,
                   runs, events, hist>>

NextLock ==
    \/ WriteLockCall
    \/ ReadLockCall

SpecLock == InitLock /\ [][NextLock]_vars

\* ================================================================ properties
\* the configured dataset with the given id, and its effective policy
DatasetOf(id) == CHOOSE x \in {Datasets[k] : k \in 1..Len(Datasets)} : x.id = id
EffectivePolicy(id) == firstNonEmpty(DatasetOf(id).policy, Cfg.defaults)
Configured == {Datasets[k].id : k \in 1..Len(Datasets)}

Returned == pc = "done" /\ ~Cfg.err
LockOnDisk == readLock(lockFile).lock

\* datasets for which this Check run detected a drift against a recorded
\* fingerprint, under one of the policies ps
Drifted(ps) ==
    {d \in Configured : /\ hist.outcome[d] \in {"stale", "drift"}
                        /\ HasItem(hist.lk0.Items, d)
                        /\ EffectivePolicy(d) \in ps}

SamePin(a, b) == /\ a.RemoteFingerprint = b.RemoteFingerprint
                 /\ a.LocalSHA256 = b.LocalSHA256

\* C1: under fail or log, a Check run that detects a drift leaves the entry's
\* remote_fingerprint and local_content_hash as they were before the run, in
\* memory and in the saved lock file.
C1_DriftNeverRepins ==
    (mode = "check" /\ Returned) =>
        \A d \in Drifted({"fail", "log"}) :
            /\ HasItem(lk.Items, d)
            /\ SamePin(lk.Items[d], hist.lk0.Items[d])
            /\ hist.saved => /\ HasItem(LockOnDisk.Items, d)
                             /\ SamePin(LockOnDisk.Items[d], hist.lk0.Items[d])

\* every dataset of the run ended up-to-date, refreshed, or stale under log
OnlyLogFindings ==
    \A d \in Configured :
        \/ hist.outcome[d] \in {"up-to-date", "refreshed"}
        \/ hist.outcome[d] = "stale" /\ EffectivePolicy(d) = "log"

C3_UpdateRefreshesExactlyWhenDue ==
    [][ (InLoop("check") /\ policy = "update" /\ ds.type \in Registered
                         /\ remote[ds.id].fpOk)
        => LET id == ds.id
               cur == FingerprintOf(remote[id].content)
               due == IF id \notin DOMAIN lk.Items THEN TRUE
                      ELSE IF lk.Items[id].RemoteFingerprint # cur THEN TRUE
                      ELSE target[id] = NoFile
           IN  /\ (id \in hist'.fetched) <=> due
               /\ (due /\ remote[id].fetchOk) =>
                     /\ target'[id] = remote[id].content
                     /\ lk'.Items[id] =
                           [LocalSHA256 |-> HashFile(target'[id]).h,
                            RemoteFingerprint |-> cur,
                            CheckedAt |-> now,
                            InaccessibleAt |-> 0,
                            InaccessibleError |-> ""]
               /\ ~due => target' = target
      ]_vars

\* a dataset refreshed only because its target file was missing
C3_Witness ==
    /\ mode = "check"
    /\ \E d \in Configured :
          /\ hist.outcome[d] = "refreshed"
          /\ hist.target0[d] = NoFile
          /\ HasItem(hist.lk0.Items, d)
          /\ hist.lk0.Items[d].RemoteFingerprint = lk.Items[d].RemoteFingerprint
          /\ lk.Items[d].CheckedAt = now

\* C4: when the fetch of a dataset fails (Check under update, or Fetch), the
\* run ends with the dataset's entry present, inaccessible_at set to the run's
\* time and inaccessible_error to the error's message, remote_fingerprint and
\* local_content_hash as before the run (empty without a prior entry), and a
\* non-zero status; the saved lock file holds the same entry.
C4_FetchFailureRecorded ==
    Returned =>
        \A d \in Configured :
            hist.outcome[d] = "fetch-failed" =>
                /\ HasItem(lk.Items, d)
                /\ now > 0
                /\ lk.Items[d].InaccessibleAt = now
                /\ lk.Items[d].InaccessibleError = FetchErr
                /\ SamePin(lk.Items[d], ItemOrZero(hist.lk0.Items, d))
                /\ exit # 0
                /\ hist.saved => /\ HasItem(LockOnDisk.Items, d)
                                 /\ LockOnDisk.Items[d] = lk.Items[d]

\* a failed fetch of a dataset that had a pinned entry, saved
C4_Witness ==
    /\ Returned /\ hist.saved
    /\ \E d \in Configured :
          /\ hist.outcome[d] = "fetch-failed"
          /\ HasItem(hist.lk0.Items, d)
          /\ hist.lk0.Items[d].RemoteFingerprint # ""
          /\ LockOnDisk.Items[d].InaccessibleAt = now

\* ---------------------------------------------------------------- C5
\* datasets whose entry was marked inaccessible before the run and which the
\* run evaluated successfully (Check under update, or Fetch)
Recovered ==
    {d \in Configured : /\ HasItem(hist.lk0.Items, d)
                        /\ hist.lk0.Items[d].InaccessibleAt # 0
                        /\ hist.outcome[d] \in {"up-to-date", "refreshed"}
                        /\ (mode = "check" => EffectivePolicy(d) = "update")}

\* C5: when a dataset whose entry has inaccessible_at/inaccessible_error set is
\* evaluated successfully by a run (up-to-date or refreshed in Check, fetched in
\* Fetch), the lock saved by that run has both fields of its entry empty.
C5_SuccessClearsInaccessible ==
    (Returned /\ hist.saved) =>
        \A d \in Recovered :
            /\ HasItem(LockOnDisk.Items, d)
            /\ LockOnDisk.Items[d].InaccessibleAt = 0
            /\ LockOnDisk.Items[d].InaccessibleError = ""

\* ---------------------------------------------------------------- C6
\* C6: in Check, when the fingerprint of a dataset cannot be obtained, the run
\* ends with the failure recorded in the dataset's entry (inaccessible_at and
\* inaccessible_error set, remote_fingerprint and local_content_hash as before
\* the run) and with a non-zero status, whatever the policy.
C6_FingerprintFailureRecorded ==
    (mode = "check" /\ Returned) =>
        \A d \in Configured :
            hist.outcome[d] = "fingerprint-error" =>
                /\ exit # 0
                /\ HasItem(lk.Items, d)
                /\ lk.Items[d].InaccessibleAt = now
                /\ lk.Items[d].InaccessibleError # ""
                /\ SamePin(lk.Items[d], ItemOrZero(hist.lk0.Items, d))

\* ---------------------------------------------------------------- C7
Max(S) == CHOOSE x \in S : \A y \in S : y <= x

\* C7: at every point of a run of Check or Fetch, and when it returns, the
\* status is the maximum of the severities raised so far (0 when none).
C7_StatusIsMaxSeverity ==
    (~Cfg.err /\ pc \in {"loop", "writing", "written", "done"}) =>
        exit = Max(hist.raised \cup {0})

\* ---------------------------------------------------------------- C8
AllUpdate == \A d \in Configured : EffectivePolicy(d) = "update"

\* a Check run that saved, following a Check run that saved, every dataset
\* under update, nothing changed in the environment since the first one started
SecondCheck ==
    /\ mode = "check" /\ Returned /\ hist.saved
    /\ hist.prev = "check" /\ hist.stable
    /\ AllUpdate

FailedBefore == {d \in Configured : hist.prevOutcome[d] = "fetch-failed"}

\* the lock saved by the run against the lock saved by the run before it:
\* same entries, same values, but for checked_at, last_checked and the fields
\* named by free
SameLockBut(free) ==
    /\ LockOnDisk.Version = hist.lk0.Version
    /\ DOMAIN LockOnDisk.Items = DOMAIN hist.lk0.Items
    /\ \A d \in DOMAIN hist.lk0.Items :
          /\ SamePin(LockOnDisk.Items[d], hist.lk0.Items[d])
          /\ LockOnDisk.Items[d].InaccessibleError = hist.lk0.Items[d].InaccessibleError
          /\ \/ LockOnDisk.Items[d].InaccessibleAt = hist.lk0.Items[d].InaccessibleAt
             \/ d \in free

\* C8 (as stated): the second of two Check runs under update, with no change in
\* between, saves a lock identical to the first one's except for checked_at
\* and last_checked, and invokes no fetch.
C8_SecondCheckIdentical ==
    SecondCheck => /\ SameLockBut({})
                   /\ hist.fetched = {}

\* C8 (amended): ... identical except for checked_at, last_checked and the
\* inaccessible_at of the datasets whose fetch failed in the first run, and
\* the second run invokes fetch for those datasets only.
C8_SecondCheckIdenticalButRetries ==
    SecondCheck => /\ SameLockBut(FailedBefore)
                   /\ hist.fetched \subseteq FailedBefore

\* a second run that found a dataset refreshed by the first one up to date
C8_Witness ==
    /\ SecondCheck
    /\ hist.fetched = {}
    /\ \E d \in Configured :
          /\ hist.prevOutcome[d] = "refreshed"
          /\ hist.outcome[d] = "up-to-date"
          /\ LockOnDisk.Items[d].CheckedAt # hist.lk0.Items[d].CheckedAt
          /\ LockOnDisk.LastChecked # hist.lk0.LastChecked

\* ---------------------------------------------------------------- C9
\* C9 (as stated): every run that returns has saved the lock exactly once.
C9_EveryRunSavesOnce ==
    pc = "done" => hist.saves = 1

\* C9 (amended): a run that loaded its configuration and its lock calls
\* writeLock exactly once, only after the last dataset has been evaluated, with
\* last_checked set to the run's time, whatever its status; when the write
\* succeeds the lock file holds that state.
C9_LoadedRunSavesOnce ==
    (~Cfg.err /\ pc \in {"loop", "writing", "written", "done"}) =>
        /\ hist.saves <= 1
        /\ hist.saves = 1 => /\ i > Len(Datasets)
                             /\ lk.LastChecked = now
        /\ pc = "done" => hist.saves = 1
        /\ (pc = "done" /\ hist.saved) => LockOnDisk = lk

\* a run that returned the failure status and saved its lock
C9_Witness ==
    /\ Returned /\ hist.saved
    /\ exit = 1
    /\ hist.saves = 1
    /\ LockOnDisk.LastChecked = now
    /\ \A d \in Configured : hist.outcome[d] # "none"

\* ---------------------------------------------------------------- C10
\* C10: the lock path never holds a partially written file; while writeLock is
\* between the start of the write of the temporary file and the rename, and
\* after the process was killed there or the write failed, readLock of the lock
\* path returns the lock stored before the save started.
C10_WriteLockAtomic ==
    /\ lockFile.kind # "partial"
    /\ pc \in {"writing", "written", "crashed"} => readLock(lockFile) = readLock(hist.file0)
    /\ (pc = "done" /\ ~hist.saved) => readLock(lockFile) = readLock(hist.file0)

\* killed while the temporary file is partly written with a new lock state
C10_Witness ==
    /\ pc = "crashed"
    /\ tmpFile.kind = "partial"
    /\ lockFile.kind = "ok"
    /\ tmpFile.doc.items # lockFile.doc.items
    /\ readLock(lockFile).lock = hist.lk0

\* ---------------------------------------------------------------- C11
\* C11: a run of Check or Fetch that finds a malformed lock file returns the
\* top-level error status (2), having invoked no handler and evaluated no
\* dataset, and leaves the lock file as it was.
C11_MalformedLockIsFatalError ==
    (runs > 0 /\ ~Cfg.err /\ hist.file0.kind = "malformed" /\ pc \in Stopped) =>
        /\ pc = "done"
        /\ exit = 2
        /\ hist.fetched = {}
        /\ hist.outcome = NoOutcome
        /\ lockFile = hist.file0

\* ---------------------------------------------------------------- C12
\* C12: a run that finds no file at the lock path loads, without failing, a
\* lock of version 1 with no items, and a Check run started from it finds no
\* dataset up to date: every dataset it evaluates is treated as stale.
C12_MissingLockIsFresh ==
    (runs > 0 /\ ~Cfg.err /\ hist.file0.kind = "absent") =>
        /\ pc # "panicked"
        /\ hist.lk0.Version = 1
        /\ DOMAIN hist.lk0.Items = {}
        /\ mode = "check" =>
              \A d \in Configured : hist.outcome[d] \notin {"up-to-date", "warned"}

\* a Check run on a missing lock file that reported a drift under fail and
\* refreshed a dataset under update
C12_Witness ==
    /\ mode = "check" /\ Returned
    /\ hist.file0.kind = "absent"
    /\ \E d \in Configured : hist.outcome[d] = "drift" /\ EffectivePolicy(d) = "fail"
    /\ \E d \in Configured : hist.outcome[d] = "refreshed"

\* ---------------------------------------------------------------- C13
\* C13: for every lock state, readLock after writeLock to the same path
\* succeeds and returns an equal lock state: the same version and
\* last_checked, the same ids, and for each id the same field values.
C13_LockRoundTrip ==
    /\ pc = "lock-read" => ~readLock(lockFile).err
    /\ pc = "lock-done" =>
          /\ lk.Version = hist.lk0.Version
          /\ lk.LastChecked = hist.lk0.LastChecked
          /\ DOMAIN lk.Items = DOMAIN hist.lk0.Items
          /\ \A d \in DOMAIN lk.Items : lk.Items[d] = hist.lk0.Items[d]

\* a lock read back with an entry whose fields are all empty and an entry
\* whose fields are all set
C13_Witness ==
    /\ pc = "lock-done"
    /\ lk.LastChecked = 0 /\ lk.Version = 0
    /\ DOMAIN lk.Items = IDs
    /\ lk.Items["d1"] = ZeroItem
    /\ lk.Items["d2"].CheckedAt # 0
    /\ lk.Items["d2"].InaccessibleAt # 0
    /\ lk.Items["d2"].InaccessibleError # ""
    /\ lk.Items["d2"].LocalSHA256 # ""
    /\ lockFile.doc.items["d1"].strs = << >>

\* ---------------------------------------------------------------- sources of a dataset
\* The handlers registered by the tests, applied to the source of dataset d:
\* "mock" answers from the remote state of d, "primary" and "secondary" always
\* succeed with their own fingerprint and content, "failprimary" always fails.
HandlerFingerprint(t, d) ==
    IF t = "mock" THEN Fingerprint(d)
    ELSE IF t \in {"primary", "secondary"} THEN [fp |-> t \o "-fp", err |-> FALSE]
    ELSE [fp |-> "", err |-> TRUE]

HandlerFetchFails(t, d) ==
    IF t = "mock" THEN FetchFails(d) ELSE t \notin {"primary", "secondary"}

HandlerContent(t, d) ==
    IF t = "mock" THEN remote[d].content ELSE "data from " \o t

\* the sources of a configured dataset, in order
Sources(d) == GetSources(DatasetOf(d))

\* source k of dataset d can serve it: its handler is registered and both of
\* its operations succeed
Serves(d, k) ==
    LET t == Sources(d)[k]
    IN  /\ Get(t)
        /\ ~HandlerFingerprint(t, d).err
        /\ ~HandlerFetchFails(t, d)

\* index of the first source that can serve d, 0 when none can
Winner(d) ==
    IF \E k \in 1..Len(Sources(d)) : Serves(d, k)
    THEN CHOOSE k \in 1..Len(Sources(d)) :
            Serves(d, k) /\ \A j \in 1..(k - 1) : ~Serves(d, j)
    ELSE 0

\* indices of the sources of d on which the run invoked a handler operation:
\* the engine resolves one handler per dataset, and invokes none when that
\* fails
Tried(d) == IF hist.outcome[d] \in {"none", "unknown-type"} THEN {} ELSE {1}

\* the [WARN] lines the run printed for d, as <<text, attempt, total>>
Warnings(d) ==
    IF hist.outcome[d] = "unknown-type" THEN {<<"unknown source.type", 0, 0>>}
    ELSE IF /\ hist.outcome[d] \in {"warned", "drift"}
            /\ EffectivePolicy(d) \notin {"update", "log", "fail"}
         THEN {<<"unknown policy", 0, 0>>}
    ELSE {}

\* d was evaluated by the run, which has returned with its lock saved, and
\* nothing changed since
Evaluating(m, d) ==
    /\ mode = m /\ Returned /\ hist.saved /\ ~hist.dirty
    /\ d \in Configured
    /\ m = "fetch" => (which = {} \/ d \in which)

\* ---------------------------------------------------------------- C14
\* C14: in Check under update, a dataset with several sources whose first
\* serving source is k ends with the fingerprint of source k recorded and the
\* content of source k in its target, and no handler operation was invoked on
\* a source after k.
C14_FirstServingSourceWins ==
    \A d \in IDs :
        (/\ Evaluating("check", d)
         /\ Len(Sources(d)) >= 2
         /\ EffectivePolicy(d) = "update"
         /\ Winner(d) # 0) =>
            LET t == Sources(d)[Winner(d)]
            IN  /\ HasItem(lk.Items, d)
                /\ lk.Items[d].RemoteFingerprint = HandlerFingerprint(t, d).fp
                /\ target[d] = HandlerContent(t, d)
                /\ \A k \in Tried(d) : k <= Winner(d)

\* ---------------------------------------------------------------- C15
\* C15: after Fetch of a dataset whose content was delivered by source k of
\* its list, the entry records the fingerprint of source k: the target holds
\* the content of the first serving source and the entry its fingerprint.
C15_FingerprintFromWinningSource ==
    \A d \in IDs :
        (/\ Evaluating("fetch", d)
         /\ Len(Sources(d)) >= 2
         /\ Winner(d) # 0) =>
            LET t == Sources(d)[Winner(d)]
            IN  /\ target[d] = HandlerContent(t, d)
                /\ HasItem(lk.Items, d)
                /\ lk.Items[d].RemoteFingerprint = HandlerFingerprint(t, d).fp
                /\ lk.Items[d].LocalSHA256 = HashFile(HandlerContent(t, d)).h

\* ---------------------------------------------------------------- C16
\* two datasets that differ only in how their one source is written, in the
\* same situation at the start of the run
SameButForm(a, b) ==
    /\ DatasetOf(a).type # "" /\ DatasetOf(a).sources = << >>
    /\ DatasetOf(b).type = "" /\ DatasetOf(b).sources = <<DatasetOf(a).type>>
    /\ DatasetOf(a).policy = DatasetOf(b).policy
    /\ remote[a] = remote[b]
    /\ hist.target0[a] = hist.target0[b]
    /\ HasItem(hist.lk0.Items, a) = HasItem(hist.lk0.Items, b)
    /\ ItemOrZero(hist.lk0.Items, a) = ItemOrZero(hist.lk0.Items, b)

\* C16: a dataset with a one-element sources list ends a run of Check or Fetch
\* as the same dataset with that source in the source field does: same
\* outcome, same handler calls, same entry, same target, same warnings.
C16_OneElementListLikeSingle ==
    \A a \in IDs, b \in IDs :
        (/\ Returned /\ hist.saved /\ ~hist.dirty /\ which = {}
         /\ {a, b} \subseteq Configured
         /\ SameButForm(a, b)) =>
            /\ hist.outcome[a] = hist.outcome[b]
            /\ Tried(a) = Tried(b)
            /\ (a \in hist.fetched) = (b \in hist.fetched)
            /\ HasItem(lk.Items, a) = HasItem(lk.Items, b)
            /\ ItemOrZero(lk.Items, a) = ItemOrZero(lk.Items, b)
            /\ target[a] = target[b]
            /\ Warnings(a) = Warnings(b)

\* ---------------------------------------------------------------- C17
\* C17: with sources [A (fails), B (serves)] under update and no prior entry,
\* a Check run prints exactly one warning for the dataset (source 1 of 2),
\* records the fingerprint of B and the hash of B's content, and returns 0
\* when the other datasets raise nothing.
C17_OneWarningThenSecondSource ==
    \A d \in IDs :
        (/\ Evaluating("check", d)
         /\ Len(Sources(d)) = 2
         /\ EffectivePolicy(d) = "update"
         /\ ~HasItem(hist.lk0.Items, d)
         /\ Winner(d) = 2) =>
            LET t == Sources(d)[2]
            IN  /\ Warnings(d) = {<<"source failed", 1, 2>>}
                /\ HasItem(lk.Items, d)
                /\ lk.Items[d].RemoteFingerprint = HandlerFingerprint(t, d).fp
                /\ lk.Items[d].LocalSHA256 = HashFile(HandlerContent(t, d)).h
                /\ (\A e \in Configured \ {d} :
                        hist.outcome[e] \in {"up-to-date", "refreshed"}) => exit = 0

\* ---------------------------------------------------------------- C18
\* every source of d has a registered handler whose fingerprint fails
AllSourcesFail(d) ==
    \A k \in 1..Len(Sources(d)) :
        Get(Sources(d)[k]) /\ HandlerFingerprint(Sources(d)[k], d).err

\* C18: when every source of a dataset fails, whatever its policy, Check
\* returns a non-zero status, leaves the target as it was, and reports a source
\* error after an attempt on each of the sources.
C18_AllSourcesFail ==
    \A d \in IDs :
        (Evaluating("check", d) /\ AllSourcesFail(d)) =>
            /\ exit # 0
            /\ target[d] = hist.target0[d]
            /\ hist.outcome[d] \in {"fingerprint-error", "fetch-failed"}
            /\ Cardinality(Tried(d)) = Len(Sources(d))

\* ---------------------------------------------------------------- C19
\* C19: a dataset whose first source has no registered handler and whose
\* second source serves is evaluated through the second one: Check under
\* update refreshes it, Fetch fetches it, and the entry records the second
\* source's fingerprint.
C19_UnregisteredCandidateSkipped ==
    \A d \in IDs :
        (/\ Evaluating("check", d) \/ Evaluating("fetch", d)
         /\ Len(Sources(d)) >= 2
         /\ ~Get(Sources(d)[1])
         /\ Winner(d) = 2
         /\ mode = "check" => EffectivePolicy(d) = "update") =>
            /\ hist.outcome[d] \in {"refreshed", "up-to-date"}
            /\ HasItem(lk.Items, d)
            /\ lk.Items[d].RemoteFingerprint = HandlerFingerprint(Sources(d)[2], d).fp

\* ---------------------------------------------------------------- C20
\* exactly one of the two source fields of the dataset is given
ExactlyOneSourceField(d) == (d.type # "") # (Len(d.sources) > 0)

InvalidSource ==
    /\ cfgFile.valid
    /\ \E k \in 1..Len(cfgFile.datasets) : ~validateDataset(cfgFile.datasets[k])

\* C21: a run on a configuration holding a dataset with an invalid source
\* configuration returns before the loop over the datasets: no dataset is
\* evaluated and no handler operation invoked, also for the valid datasets
\* listed before the invalid one, no target file is touched and neither the
\* lock file nor its temporary file is written.
C21_SourcesValidatedAtLoad ==
    (runs > 0 /\ InvalidSource) =>
        /\ pc = "done"
        /\ i = 1
        /\ hist.outcome = NoOutcome
        /\ hist.fetched = {}
        /\ hist.saves = 0
        /\ tmpFile = AbsentFile
        /\ lockFile = hist.file0
        /\ ~hist.dirty => target = hist.target0

\* a run on a configuration whose first dataset is valid, under update with a
\* registered handler and no target file, and whose second dataset is not
C21_Witness ==
    /\ runs > 0 /\ pc = "done" /\ exit = 2
    /\ InvalidSource
    /\ validateDataset(cfgFile.datasets[1])
    /\ Get(cfgFile.datasets[1].type)
    /\ cfgFile.datasets[1].policy = "update"
    /\ target[cfgFile.datasets[1].id] = NoFile
    /\ ~validateDataset(cfgFile.datasets[2])

\* ---------------------------------------------------------------- C22
\* the datasets a run has to evaluate: all of them, or those named to Fetch
Due == IF mode = "fetch" /\ which # {} THEN Configured \cap which ELSE Configured

\* outcomes of a dataset that failed
Failures == {"unknown-type", "fingerprint-error", "fetch-failed", "drift"}

\* the step leaves alone the entries of every dataset but id
OthersUntouched(id) ==
    \A d \in (DOMAIN lk.Items \cup DOMAIN lk'.Items) \ {id} :
        /\ d \in DOMAIN lk.Items
        /\ d \in DOMAIN lk'.Items
        /\ lk'.Items[d] = lk.Items[d]

\* C22: a run of Check or Fetch that loaded its configuration and its lock
\* evaluates every dataset it has to, whatever happened to the datasets before
\* it (unknown handler type, fingerprint failure, fetch failure, drift under
\* fail), and the evaluation of a dataset changes no entry but its own.
C22_FailuresAreDatasetScoped ==
    /\ [](Returned => \A d \in Due : hist.outcome[d] # "none")
    /\ [][(pc = "loop" /\ i <= Len(Datasets)) =>
              /\ i' = i + 1
              /\ pc' = "loop"
              /\ OthersUntouched(ds.id)]_vars

\* the first dataset failed in its fetch, which changed its entry, and the
\* second one was then refreshed, its own entry alone being rewritten
C22_Witness ==
    /\ Returned /\ hist.saved
    /\ Len(Datasets) = 2
    /\ hist.outcome[Datasets[1].id] = "fetch-failed"
    /\ lk.Items[Datasets[1].id].InaccessibleAt = now
    /\ hist.outcome[Datasets[2].id] = "refreshed"
    /\ lk.Items[Datasets[2].id].CheckedAt = now
    /\ lk.Items[Datasets[2].id].InaccessibleAt = 0
    /\ exit = 1

\* ---------------------------------------------------------------- C23
\* datasets under fail or log that the Check run took to the policy switch
Judged ==
    {d \in Configured : /\ EffectivePolicy(d) \in {"fail", "log"}
                        /\ hist.outcome[d] \notin {"none", "unknown-type", "fingerprint-error"}}

\* the entry the run loaded for d records the current fingerprint of d
PinCurrent(d) ==
    /\ HasItem(hist.lk0.Items, d)
    /\ hist.lk0.Items[d].RemoteFingerprint = Fingerprint(d).fp

\* C23 (as stated): under fail and log, a dataset whose target file is missing
\* while its recorded fingerprint is the current one is stale: Check reports a
\* drift and a non-zero status under fail, a stale line under log.
C23_MissingTargetIsStale ==
    (mode = "check" /\ Returned /\ hist.saved /\ ~hist.dirty) =>
        \A d \in Judged :
            (PinCurrent(d) /\ hist.target0[d] = NoFile) =>
                IF EffectivePolicy(d) = "fail"
                THEN hist.outcome[d] = "drift" /\ exit # 0
                ELSE hist.outcome[d] = "stale"

\* C23 (amended): under fail and log, a dataset is stale exactly when it has
\* no entry or its recorded fingerprint differs from the current one, whether
\* or not its target file exists: Check then reports a drift and a non-zero
\* status under fail, a stale line under log, and otherwise reports the
\* dataset up to date; in no case is the target fetched or created.
C23_StaleIsAboutTheFingerprint ==
    (mode = "check" /\ Returned /\ ~hist.dirty) =>
        \A d \in Judged :
            /\ hist.outcome[d] =
                  IF PinCurrent(d) THEN "up-to-date"
                  ELSE IF EffectivePolicy(d) = "fail" THEN "drift" ELSE "stale"
            /\ hist.outcome[d] = "drift" => exit # 0
            /\ d \notin hist.fetched
            /\ target[d] = hist.target0[d]

\* a run that returned 0 with a dataset under fail, and one under log, pinned
\* to the current fingerprint and without a target file
C23_Witness ==
    /\ mode = "check" /\ Returned /\ ~hist.dirty /\ exit = 0
    /\ \E d \in Judged, e \in Judged :
          /\ EffectivePolicy(d) = "fail" /\ EffectivePolicy(e) = "log"
          /\ PinCurrent(d) /\ PinCurrent(e)
          /\ target[d] = NoFile /\ target[e] = NoFile
          /\ hist.outcome[d] = "up-to-date" /\ hist.outcome[e] = "up-to-date"

\* ---------------------------------------------------------------- C24
\* C24: in Check under fail or log, a dataset whose recorded fingerprint is
\* the current one and whose target file exists is left alone (no fetch, the
\* target as it was) and its entry is refreshed: checked_at is the time of
\* this run and remote_fingerprint is as before the run.
C24_FreshEntryRefreshed ==
    (mode = "check" /\ Returned /\ hist.saved /\ ~hist.dirty) =>
        \A d \in Judged :
            (PinCurrent(d) /\ hist.target0[d] # NoFile) =>
                /\ d \notin hist.fetched
                /\ target[d] = hist.target0[d]
                /\ HasItem(lk.Items, d)
                /\ lk.Items[d].CheckedAt = now
                /\ lk.Items[d].RemoteFingerprint = hist.lk0.Items[d].RemoteFingerprint

\* ---------------------------------------------------------------- C25
\* datasets with an unknown effective policy that the Check run took to the
\* policy switch
Unruled ==
    {d \in Configured : /\ EffectivePolicy(d) \notin {"fail", "update", "log"}
                        /\ hist.outcome[d] \notin {"none", "unknown-type", "fingerprint-error"}}

\* C25: a dataset whose effective policy is none of fail, update, log gets a
\* warning; when it is stale (no entry, or the recorded fingerprint differs
\* from the current one) the run returns the failure status, and otherwise
\* the dataset does not raise the status; no fetch is invoked for it, its
\* target is as before the run and its lock entry is unmodified.
C25_UnknownPolicyFailsWhenStale ==
    (mode = "check" /\ Returned /\ ~hist.dirty) =>
        \A d \in Unruled :
            /\ Warnings(d) = {<<"unknown policy", 0, 0>>}
            /\ hist.outcome[d] = IF PinCurrent(d) THEN "warned" ELSE "drift"
            /\ ~PinCurrent(d) => exit = 1
            /\ (PinCurrent(d) /\ hist.saved /\ hist.raised = {0}) => exit = 0
            /\ d \notin hist.fetched
            /\ target[d] = hist.target0[d]
            /\ HasItem(lk.Items, d) = HasItem(hist.lk0.Items, d)
            /\ ItemOrZero(lk.Items, d) = ItemOrZero(hist.lk0.Items, d)

\* a run that returned 1 for a dataset with an unknown policy whose recorded
\* fingerprint is no longer the current one, its entry and target left alone
C25_Witness ==
    /\ mode = "check" /\ Returned /\ hist.saved /\ ~hist.dirty
    /\ exit = 1
    /\ \E d \in Unruled :
          /\ hist.outcome[d] = "drift"
          /\ HasItem(lk.Items, d)
          /\ lk.Items[d].RemoteFingerprint # Fingerprint(d).fp
          /\ target[d] # remote[d].content
          /\ hist.raised = {1}

\* ---------------------------------------------------------------- C26
\* the entries of the lock l hold every entry the run loaded, those of the
\* ids the run did not evaluate with the values loaded
KeepsEntries(l) ==
    /\ DOMAIN hist.lk0.Items \subseteq DOMAIN l.Items
    /\ \A d \in DOMAIN hist.lk0.Items :
          (d \notin IDs \/ hist.outcome[d] = "none") => l.Items[d] = hist.lk0.Items[d]

\* C26: a run of Check or Fetch removes no lock entry: at every point of a
\* run that loaded its lock, and in the lock file it saves, every id of the
\* lock loaded is present, ids that are no longer configured and ids not
\* selected by Fetch included, and the entries of the ids the run did not
\* evaluate are unchanged; until the save the lock file is as loaded.
C26_NoEntryRemoved ==
    (~Cfg.err /\ pc \in {"loop", "writing", "written", "done", "crashed"}) =>
        /\ KeepsEntries(lk)
        /\ lockFile.kind = "ok" => KeepsEntries(LockOnDisk)
        /\ (pc = "done" /\ hist.saved) => LockOnDisk.Items = lk.Items

\* a saved Check run over a configuration that lists d1 alone, which rewrote
\* the entry of d1 and kept those of d2 and "old"
C26_Witness ==
    /\ mode = "check" /\ Returned /\ hist.saved
    /\ Configured = {"d1"}
    /\ hist.outcome["d1"] = "refreshed"
    /\ LockOnDisk.Items["d1"] # hist.lk0.Items["d1"]
    /\ DOMAIN LockOnDisk.Items = {"d1", "d2", "old"}
    /\ LockOnDisk.Items["d2"] = OrphanLock.Items["d2"]
    /\ LockOnDisk.Items["old"] = OrphanLock.Items["old"]

\* ---------------------------------------------------------------- C27
\* the run called writeLock and writeLock returned an error
SaveFailed == pc = "done" /\ ~Cfg.err /\ hist.saves = 1 /\ ~hist.saved

ctx == [deadline |-> FALSE, cancellable |-> FALSE]

\* A handler call ends on its own or when its context is done. The command
\* handler runs exec.CommandContext(ctx, "sh", "-c", cmd).CombinedOutput(): a
\* command that never exits is killed only when ctx is done.
CallIsBounded == ctx.deadline \/ ctx.cancellable

\* f.Fingerprint(ctx, ...) or f.Fetch(ctx, ...) of the current dataset is called
\* on a source that never answers: with a context that is never done the call
\* does not return, and the loop stays in it.
HandlerHangs ==
    /\ pc = "loop" /\ i <= Len(Datasets)
    /\ mode = "fetch" => (Cardinality(which) > 0 => ds.id \in which)
    /\ Get(ds.type)
    /\ ~CallIsBounded
    /\ events < MaxEvents
    /\ events' = events + 1
    /\ pc' = "hung"
    /\ UNCHANGED <<cfgFile, lockFile, tmpFile, remote, target, mode, which, lk, now,
                   exit, i, runs, hist>>

NextHang ==
    \/ Next
    \/ HandlerHangs

SpecHang == Init /\ [][NextHang]_vars

\* the steps a started run takes by itself, up to its return
RunStep ==
    \/ CheckUnknownHandler
    \/ CheckFingerprintError
    \/ CheckUpdateFetchFailed
    \/ CheckUpdateRefresh
    \/ CheckUpdateUpToDate
    \/ CheckLog
    \/ CheckFail
    \/ CheckUnknownPolicy
    \/ FetchSkip
    \/ FetchUnknownHandler
    \/ FetchFailed
    \/ FetchFingerprintError
    \/ FetchOk
    \/ SaveBegin
    \/ WriteTmpDone
    \/ Rename

\* C29: every run of Check or Fetch terminates, also when a handler call would
\* never return on its own: a run that has not returned (or died) always has a
\* next step to take, so it is never stuck inside a handler call.
C29_EveryRunTerminates == pc \in Stopped \/ ENABLED RunStep

\* ================================================================ C30
\* ---------------------------------------------------------------- handler Fetch
\* One call h.Fetch(ctx, src, dest) of a handler, step by step. Here mode is
\* the handler's name, which holds the dataset whose target is dest, target is
\* the destination file, tmpFile the content of dest + ".tmp" (NoFile when it
\* does not exist), remote[d].fetchOk tells whether the source delivers its
\* content to the end, and hist.target0 is the destination before the call.
Handlers == {"http", "file", "git", "command"}
TmpHandlers == {"http", "file", "git"}    \* those that write dest + ".tmp" first

\* a file that holds only the beginning of content c
PartialOf(c) == "part-of-" \o c

Dest == CHOOSE d \in which : TRUE

InitFetch ==
    /\ cfgFile = InvalidConfig
    /\ lockFile = AbsentFile
    /\ tmpFile = NoFile
    /\ remote \in [IDs -> [content : Contents, fpOk : {TRUE}, fetchOk : BOOLEAN]]
    /\ target \in [IDs -> {NoFile, "a"}]
    /\ pc = "h-idle"
    /\ mode = "http"
    /\ which = {"d1"}
    /\ lk = FreshLock
    /\ now = 0
    /\ exit = 0
    /\ i = 1
    /\ runs = 0
    /\ events = 0
    /\ hist = FreshHist("other", NoOutcome, FALSE)

\* the engine calls f.Fetch(ctx, ds.Source, ds.Target) of the dataset's handler
HandlerFetchCall ==
    /\ pc \in {"h-idle", "h-ok", "h-failed"}
    /\ runs < MaxRuns
    /\ runs' = runs + 1
    /\ \E h \in Handlers, d \in IDs :
          /\ mode' = h
          /\ which' = {d}
    /\ pc' = "h-called"
    /\ hist' = [hist EXCEPT !.target0 = target]
    /\ UNCHANGED <<cfgFile, lockFile, tmpFile, remote, target, lk, now, exit, i, events>>

\* http, file, git: an error before anything is written (the request fails or
\* answers with a status >= 400, the source file or the blob cannot be opened)
FetchSourceFails ==
    /\ pc = "h-called"
    /\ mode \in TmpHandlers
    /\ ~remote[Dest].fetchOk
    /\ pc' = "h-failed"
    /\ UNCHANGED <<cfgFile, lockFile, tmpFile, remote, target, mode, which, lk, now,
                   exit, i, runs, events, hist>>

\* os.MkdirAll(filepath.Dir(dest)); tmp := dest + ".tmp"; os.Create(tmp);
\* io.Copy has written the beginning of the content to tmp
FetchCreateTmp ==
    /\ pc = "h-called"
    /\ mode \in TmpHandlers
    /\ tmpFile' = PartialOf(remote[Dest].content)
    /\ pc' = "h-copying"
    /\ UNCHANGED <<cfgFile, lockFile, remote, target, mode, which, lk, now, exit, i,
                   runs, events, hist>>

\* io.Copy or Close returns an error: os.Remove(tmp); return err
FetchCopyFails ==
    /\ pc = "h-copying"
    /\ ~remote[Dest].fetchOk
    /\ tmpFile' = NoFile
    /\ pc' = "h-failed"
    /\ UNCHANGED <<cfgFile, lockFile, remote, target, mode, which, lk, now, exit, i,
                   runs, events, hist>>

\* io.Copy and Close succeed: tmp holds the whole content
FetchCopyDone ==
    /\ pc = "h-copying"
    /\ remote[Dest].fetchOk
    /\ tmpFile' = remote[Dest].content
    /\ pc' = "h-copied"
    /\ UNCHANGED <<cfgFile, lockFile, remote, target, mode, which, lk, now, exit, i,
                   runs, events, hist>>

\* return os.Rename(tmp, dest), returning nil
FetchRename ==
    /\ pc = "h-copied"
    /\ target' = [target EXCEPT ![Dest] = tmpFile]
    /\ tmpFile' = NoFile
    /\ pc' = "h-ok"
    /\ UNCHANGED <<cfgFile, lockFile, remote, mode, which, lk, now, exit, i, runs,
                   events, hist>>

\* return os.Rename(tmp, dest), returning an error: tmp stays, dest is untouched
FetchRenameFails ==
    /\ pc = "h-copied"
    /\ events < MaxEvents
    /\ events' = events + 1
    /\ pc' = "h-failed"
    /\ UNCHANGED <<cfgFile, lockFile, tmpFile, remote, target, mode, which, lk, now,
                   exit, i, runs, hist>>

\* command: runrt.RunShell(ctx, cmd, env) starts sh -c with the fetch_cmd, in
\* which {{dest}} (or $DEST) is the destination itself
\* ("curl -o {{dest}} ...", "echo fetched content > {{dest}}")
CommandRuns ==
    /\ pc = "h-called"
    /\ mode = "command"
    /\ pc' = "h-running"
    /\ UNCHANGED <<cfgFile, lockFile, tmpFile, remote, target, mode, which, lk, now,
                   exit, i, runs, events, hist>>

\* the command has opened dest for writing and written the beginning of its output
CommandWrites ==
    /\ pc = "h-running"
    /\ target' = [target EXCEPT ![Dest] = PartialOf(remote[Dest].content)]
    /\ pc' = "h-writing"
    /\ UNCHANGED <<cfgFile, lockFile, tmpFile, remote, mode, which, lk, now, exit, i,
                   runs, events, hist>>

\* the command writes the rest and exits with status 0: RunShell returns nil
CommandExitsZero ==
    /\ pc = "h-writing"
    /\ remote[Dest].fetchOk
    /\ target' = [target EXCEPT ![Dest] = remote[Dest].content]
    /\ pc' = "h-ok"
    /\ UNCHANGED <<cfgFile, lockFile, tmpFile, remote, mode, which, lk, now, exit, i,
                   runs, events, hist>>

\* the command exits with a non-zero status, before or after it began to write:
\* RunShell returns "command failed: ..." and Fetch returns it
CommandFails ==
    /\ pc \in {"h-running", "h-writing"}
    /\ ~remote[Dest].fetchOk
    /\ pc' = "h-failed"
    /\ UNCHANGED <<cfgFile, lockFile, tmpFile, remote, target, mode, which, lk, now,
                   exit, i, runs, events, hist>>

NextFetch ==
    \/ HandlerFetchCall
    \/ FetchSourceFails
    \/ FetchCreateTmp
    \/ FetchCopyFails
    \/ FetchCopyDone
    \/ FetchRename
    \/ FetchRenameFails
    \/ CommandRuns
    \/ CommandWrites
    \/ CommandExitsZero
    \/ CommandFails

SpecFetch == InitFetch /\ [][NextFetch]_vars

\* C30: for every handler, a Fetch that returns an error leaves every
\* destination as it was before the call (same content, or still absent), and a
\* Fetch that returns nil leaves the whole new content at dest.
C30_FailedFetchKeepsDestination ==
    /\ pc = "h-failed" => target = hist.target0
    /\ pc = "h-ok" => target = [hist.target0 EXCEPT ![Dest] = remote[Dest].content]

\* ================================================================ C31
\* ---------------------------------------------------------------- the registry
\* registry.go: var fetchers = map[string]Fetcher{}, Register and Get. Here
\* which is the map fetchers (tag -> handler), exit is what the last call of Get
\* returned, hist.last notes, per tag, the handler passed to the latest
\* Register under that tag, and hist.replaced the tags registered again with
\* another handler.
Tags == {"http", "file", "command"}
\* the handlers that may be registered: a name and the identity of the instance
Fetchers == [name : Tags, inst : {1, 2}]
NilFetcher == [name |-> "", inst |-> 0]
NoCall == [kind |-> "", f |-> NilFetcher, ok |-> FALSE]

\* (variant: Register keeps the handler already bound to the name)
RegisterMap_KeepFirst(m, f) ==
    [t \in DOMAIN m \cup {f.name} |-> IF t \in DOMAIN m THEN m[t] ELSE f]

\* fetchers[f.Name()] = f
RegisterMap(m, f) ==
    [t \in DOMAIN m \cup {f.name} |-> IF t = f.name THEN f ELSE m[t]]

\* f, ok := fetchers[kind]
GetMap(m, kind) ==
    IF kind \in DOMAIN m THEN [kind |-> kind, f |-> m[kind], ok |-> TRUE]
    ELSE [kind |-> kind, f |-> NilFetcher, ok |-> FALSE]

InitRegistry ==
    /\ cfgFile = InvalidConfig
    /\ lockFile = AbsentFile
    /\ tmpFile = AbsentFile
    /\ remote = [d \in IDs |-> [content |-> "a", fpOk |-> TRUE, fetchOk |-> TRUE]]
    /\ target = [d \in IDs |-> NoFile]
    /\ pc = "registry"
    /\ mode = "check"
    /\ which = [t \in {} |-> NilFetcher]
    /\ lk = FreshLock
    /\ now = 0
    /\ exit = NoCall
    /\ i = 1
    /\ runs = 0
    /\ events = 0
    /\ hist = [last |-> [t \in {} |-> NilFetcher], replaced |-> {}]

\* Register(f)
RegisterCall ==
    /\ pc = "registry"
    /\ \E f \in Fetchers :
          /\ which' = RegisterMap(which, f)
          /\ hist' = [last |-> [t \in DOMAIN hist.last \cup {f.name} |->
                                   IF t = f.name THEN f ELSE hist.last[t]],
                       replaced |-> IF f.name \in DOMAIN hist.last
                                       /\ hist.last[f.name] # f
                                    THEN hist.replaced \cup {f.name}
                                    ELSE hist.replaced]
    /\ UNCHANGED <<cfgFile, lockFile, tmpFile, remote, target, pc, mode, lk, now,
                   exit, i, runs, events>>

\* f, ok := Get(kind)
GetCall ==
    /\ pc = "registry"
    /\ \E kind \in Tags : exit' = GetMap(which, kind)
    /\ UNCHANGED <<cfgFile, lockFile, tmpFile, remote, target, pc, mode, which, lk,
                   now, i, runs, events, hist>>

NextRegistry ==
    \/ RegisterCall
    \/ GetCall

SpecRegistry == InitRegistry /\ [][NextRegistry]_vars

\* C31: the handler Get returned is the one passed to the latest Register
\* under that tag, with ok = true; for a tag never registered Get returned
\* (nil, false); and no step takes a registered tag out of the registry.
C31_GetReturnsLatestRegistered ==
    /\ [][exit' # exit =>
            IF exit'.kind \in DOMAIN hist.last
            THEN exit'.ok /\ exit'.f = hist.last[exit'.kind]
            ELSE ~exit'.ok /\ exit'.f = NilFetcher]_vars
    /\ [][\A t \in Tags : GetMap(which, t).ok => GetMap(which', t).ok]_vars

\* a tag was registered again with another handler and Get returned the later
\* one, while some tag has never been registered
C31_Witness ==
    /\ exit.ok
    /\ exit.kind \in hist.replaced
    /\ exit.f = hist.last[exit.kind]
    /\ DOMAIN which # Tags

\* ================================================================ C32
\* ---------------------------------------------------------------- status lines
\* The runs of Spec, started with a target of d1 that exists and cannot be
\* opened (os.Stat succeeds, os.Open fails), so that HashFile fails on it.
InitUnreadable ==
    /\ cfgFile \in ValidConfigs
    /\ lockFile \in {AbsentFile, Marshal(PinnedLock)}
    /\ tmpFile = AbsentFile
    /\ remote = [d \in IDs |-> [content |-> "a", fpOk |-> TRUE, fetchOk |-> TRUE]]
    /\ target = [d \in IDs |-> IF d = "d1" THEN Unreadable ELSE "a"]
    /\ pc = "idle"
    /\ mode = "check"
    /\ which = {}
    /\ lk = FreshLock
    /\ now = 0
    /\ exit = 0
    /\ i = 1
    /\ runs = 0
    /\ events = 0
    /\ hist = FreshHist("other", NoOutcome, FALSE)

SpecUnreadable == InitUnreadable /\ [][Next]_vars

\* (variant: no continue after a fingerprint error: the dataset goes on to the
\* policy switch and is reported there as well)
Printed_NoContinue(m, o, pol, hashErr) ==
    IF o = "none" THEN <<>>
    ELSE IF o = "unknown-type" THEN << "[WARN] unknown source.type" >>
    ELSE IF m = "check" /\ o = "fingerprint-error"
    THEN << "[ERR ] fingerprint", "[FAIL] remote changed" >>
    ELSE << "[OK  ] up-to-date" >>

\* The lines Check (m = "check") or Fetch prints for a dataset whose
\* evaluation ended with outcome o under policy pol; hashErr: the target
\* existed and HashFile failed on it.
Printed(m, o, pol, hashErr) ==
    IF o = "none" THEN <<>>
    ELSE IF o = "unknown-type" THEN << "[WARN] unknown source.type" >>
    ELSE IF m = "fetch"
    THEN << "[FETCH]" >> \o
         ( IF o = "fetch-failed"
           THEN << "[ERR ] fetch", "[INFO] source may be inaccessible" >>
           ELSE IF o = "fingerprint-error"
           THEN << "[ERR ] fingerprint after fetch" >>
           ELSE <<>> )
    ELSE IF o = "fingerprint-error" THEN << "[ERR ] fingerprint" >>
    ELSE ( IF hashErr THEN << "[ERR ] local hash" >> ELSE <<>> ) \o
         ( IF o = "fetch-failed"
           THEN << "[UPD ] refreshing", "[ERR ] fetch",
                   "[INFO] source may be inaccessible" >>
           ELSE IF o = "refreshed" THEN << "[UPD ] refreshing" >>
           ELSE IF o = "up-to-date" THEN << "[OK  ] up-to-date" >>
           ELSE IF o = "stale" THEN << "[STALE] remote changed" >>
           ELSE IF pol = "fail" THEN << "[FAIL] remote changed" >>
           ELSE << "[WARN] unknown policy" >> )

\* the lines that state how the evaluation of the dataset ended; the others
\* announce an operation ([UPD ], [FETCH]), give a hint ([INFO]) or report the
\* local hash, after which the evaluation goes on
TerminalLines ==
    { "[WARN] unknown source.type", "[ERR ] fingerprint", "[ERR ] fetch",
      "[ERR ] fingerprint after fetch", "[OK  ] up-to-date",
      "[STALE] remote changed", "[FAIL] remote changed", "[WARN] unknown policy" }

IsTerminalLine(l) == l \in TerminalLines

\* HashFile failed on the existing target of d when the run evaluated it
LocalHashFailed(d) ==
    /\ mode = "check"
    /\ hist.outcome[d] \notin {"none", "unknown-type", "fingerprint-error"}
    /\ fileExists(hist.target0[d])
    /\ HashFile(hist.target0[d]).err

\* the lines the current run has printed for dataset d
PrintedFor(d) == Printed(mode, hist.outcome[d], EffectivePolicy(d), LocalHashFailed(d))

FailedOutcomes == {"unknown-type", "fingerprint-error", "fetch-failed", "drift"}

\* C32: every dataset whose evaluation failed in the run (unknown handler type,
\* fingerprint failure, fetch failure, drift that raises the status) has
\* exactly one terminal status line among the lines the run printed for it.
C32_OneTerminalLinePerFailure ==
    \A d \in Configured :
        hist.outcome[d] \in FailedOutcomes =>
            Len(SelectSeq(PrintedFor(d), IsTerminalLine)) = 1

\* a run reported drift under fail for a dataset after reporting that its
\* target could not be hashed
C32_Witness ==
    /\ pc = "done"
    /\ \E d \in Configured :
          /\ hist.outcome[d] = "drift"
          /\ EffectivePolicy(d) = "fail"
          /\ PrintedFor(d) = << "[ERR ] local hash", "[FAIL] remote changed" >>

\* ================================================================ C33
\* ---------------------------------------------------------------- a source that changes during an evaluation
\* Check, policy update: fp is computed (part_006:72), the remote content
\* changes, then f.Fetch materializes the new content (part_006:104) and the
\* entry is written with the fp computed before (part_006:122).
CheckUpdateRefreshRaced ==
    /\ Evaluated /\ policy = "update"
    /\ NeedsRefresh
    /\ ~FetchFails(ds.id)
    /\ ds.id \in Changing
    /\ events < MaxEvents
    /\ events' = events + 1
    /\ \E c \in Contents :
          /\ c # remote[ds.id].content
          /\ remote' = [remote EXCEPT ![ds.id].content = c]
    /\ target' = [target EXCEPT ![ds.id] = remote'[ds.id].content]
    /\ lk' = [lk EXCEPT !.Items =
                 SetItem(lk.Items, ds.id, NewItem(HashFile(target'[ds.id]).h, fp, now))]
    /\ i' = i + 1
    /\ hist' = NoteFetch(Note(ds.id, "refreshed", 0), ds.id)
    /\ UNCHANGED <<cfgFile, lockFile, tmpFile, pc, mode, which, now, exit, runs>>

\* Fetch: f.Fetch materializes the content (part_006:250), the remote content
\* changes, then f.Fingerprint is computed (part_006:269) and recorded with the
\* hash of the target (part_006:279-280).
FetchOkRaced ==
    /\ Selected
    /\ Get(ds.type)
    /\ ~FetchFails(ds.id)
    /\ ~Fingerprint(ds.id).err
    /\ ds.id \in Changing
    /\ events < MaxEvents
    /\ events' = events + 1
    /\ target' = Fetched(ds.id)
    /\ \E c \in Contents :
          /\ c # remote[ds.id].content
          /\ remote' = [remote EXCEPT ![ds.id].content = c]
    /\ lk' = [lk EXCEPT !.Items =
                 SetItem(lk.Items, ds.id,
                         NewItem(HashFile(target'[ds.id]).h,
                                 FingerprintOf(remote'[ds.id].content), now))]
    /\ i' = i + 1
    /\ hist' = NoteFetch(Note(ds.id, "refreshed", 0), ds.id)
    /\ UNCHANGED <<cfgFile, lockFile, tmpFile, pc, mode, which, now, exit, runs>>

NextRaced ==
    \/ Next
    \/ CheckUpdateRefreshRaced
    \/ FetchOkRaced

SpecRaced == Init /\ [][NextRaced]_vars

\* C33: after a successful refresh, the remote_fingerprint of the entry is the
\* fingerprint of the content that was materialized at the target, also when
\* the source changed between the fingerprint call and the fetch call.
C33_FingerprintMatchesMaterialized ==
    \A d \in Configured :
        (hist.outcome[d] = "refreshed" /\ ~hist.dirty /\ pc \notin {"idle", "panicked"}) =>
            /\ HasItem(lk.Items, d)
            /\ lk.Items[d].RemoteFingerprint = FingerprintOf(target[d])

\* ================================================================ C34
\* C34: at the end of a Fetch run, every dataset whose target content the run
\* replaced has an entry whose local_sha256 is the hash of the new target and
\* whose remote_fingerprint is the fingerprint of the source in that run, also
\* when the fingerprint call after the fetch failed.
C34_FetchKeepsTargetAndEntryConsistent ==
    (Returned /\ mode = "fetch" /\ ~hist.dirty) =>
        \A d \in Configured :
            target[d] # hist.target0[d] =>
                /\ HasItem(lk.Items, d)
                /\ lk.Items[d].LocalSHA256 = HashFile(target[d]).h
                /\ lk.Items[d].RemoteFingerprint = FingerprintOf(remote[d].content)

\* ================================================================ C35
\* ---------------------------------------------------------------- Fetch with an id list
\* id lists given to Fetch ("datum fetch dataset1 dataset2"): none, configured
\* ids, and ids that match no dataset of the configuration
UnknownID == "d9"
FetchIdLists == {{}, {"d1"}, {"d2"}, {"d1", UnknownID}, {UnknownID}}

StartFetchIds == \E ids \in FetchIdLists : Begin("fetch", ids)

InitIds ==
    /\ cfgFile \in ValidConfigs
    /\ lockFile = Marshal(PinnedLock)
    /\ tmpFile = AbsentFile
    /\ remote = [d \in IDs |-> [content |-> "a", fpOk |-> TRUE, fetchOk |-> TRUE]]
    /\ target \in {[d \in IDs |-> NoFile], [d \in IDs |-> "a"]}
    /\ pc = "idle"
    /\ mode = "check"
    /\ which = {}
    /\ lk = FreshLock
    /\ now = 0
    /\ exit = 0
    /\ i = 1
    /\ runs = 0
    /\ events = 0
    /\ hist = FreshHist("other", NoOutcome, FALSE)

NextIds ==
    \/ Next
    \/ StartFetchIds

SpecIds == InitIds /\ [][NextIds]_vars

\* a Fetch run that is under way or has returned, with nothing changed from
\* outside since it started
InFetchRun == mode = "fetch" /\ pc \notin {"idle", "panicked"} /\ ~Cfg.err /\ ~hist.dirty

\* C35: Fetch with a non-empty id list evaluates only configured datasets of
\* the list and leaves entry and target of every other dataset as they were;
\* with an empty list it evaluates every configured dataset; ids that match
\* no configured dataset change nothing and do not raise the status.
C35_FetchTouchesListedDatasetsOnly ==
    InFetchRun =>
        /\ which # {} =>
              \A d \in Configured \ which :
                  /\ hist.outcome[d] = "none"
                  /\ d \notin hist.fetched
                  /\ HasItem(lk.Items, d) = HasItem(hist.lk0.Items, d)
                  /\ ItemOrZero(lk.Items, d) = ItemOrZero(hist.lk0.Items, d)
                  /\ target[d] = hist.target0[d]
        /\ (which = {} /\ pc = "done") =>
              \A d \in Configured : hist.outcome[d] # "none"
        /\ (which # {} /\ pc = "done") =>
              \A d \in Configured \cap which : hist.outcome[d] # "none"
        /\ (which # {} /\ which \cap Configured = {}) =>
              /\ lk.Items = hist.lk0.Items
              /\ target = hist.target0
              /\ hist.raised \subseteq {1}
              /\ (pc = "done" /\ hist.saved) => exit = 0

\* Fetch of d1 and of an id that is not configured has returned: d1 was
\* fetched, d2 was skipped
C35_Witness ==
    /\ InFetchRun /\ pc = "done" /\ hist.saved
    /\ which = {"d1", UnknownID}
    /\ hist.outcome["d1"] = "refreshed"
    /\ hist.outcome["d2"] = "none"
    /\ exit = 0

\* ================================================================ C36
\* ---------------------------------------------------------------- a lock file that cannot be read
\* the lock file exists, holds l, and os.ReadFile on it fails (no permission
\* to read it, an I/O error)
UnreadableLock(l) == [kind |-> "unreadable", doc |-> MarshalLock(l)]

InitUnreadableLock ==
    /\ cfgFile \in ValidConfigs
    /\ lockFile = UnreadableLock(PinnedLock)
    /\ tmpFile = AbsentFile
    /\ remote = [d \in IDs |-> [content |-> "a", fpOk |-> TRUE, fetchOk |-> TRUE]]
    /\ target \in {[d \in IDs |-> NoFile], [d \in IDs |-> "a"]}
    /\ pc = "idle"
    /\ mode = "check"
    /\ which = {}
    /\ lk = FreshLock
    /\ now = 0
    /\ exit = 0
    /\ i = 1
    /\ runs = 0
    /\ events = 0
    /\ hist = FreshHist("other", NoOutcome, FALSE)

SpecUnreadableLock == InitUnreadableLock /\ [][Next]_vars

\* C36: a lock file that exists and cannot be read is not treated as an empty
\* lock: a run started on it does not replace it with a lock file that lacks
\* one of the entries it held.
C36_UnreadableLockNotReplaced ==
    (runs > 0 /\ hist.file0.kind = "unreadable" /\ lockFile # hist.file0) =>
        /\ lockFile.kind = "ok"
        /\ DOMAIN hist.file0.doc.items \subseteq DOMAIN lockFile.doc.items

\* ================================================================ C37
\* ---------------------------------------------------------------- datasets that differ locally
\* Configurations whose two datasets have the same policy and source type,
\* lock files that pin both to the same remote fingerprint with recorded
\* hashes that may differ, and target files that may differ in content.
TwinConfigs ==
    { [valid |-> TRUE, defaults |-> "",
       datasets |-> << [id |-> "d1", policy |-> k[1], type |-> k[2], sources |-> <<>>],
                       [id |-> "d2", policy |-> k[1], type |-> k[2], sources |-> <<>>] >>] :
      k \in DatasetKinds }

TwinLocks ==
    { [Version |-> 1, LastChecked |-> 0,
       Items |-> [d \in IDs |->
                     [ZeroItem EXCEPT !.LocalSHA256 = IF d = "d1" THEN h ELSE "sha-a",
                                      !.RemoteFingerprint = f]]] :
      h \in {"", "sha-a", "sha-b"}, f \in {"fp-a", "fp-b"} }

InitTwins ==
    /\ cfgFile \in TwinConfigs
    /\ lockFile \in {Marshal(l) : l \in TwinLocks}
    /\ tmpFile = AbsentFile
    /\ remote = [d \in IDs |-> [content |-> "a", fpOk |-> TRUE, fetchOk |-> TRUE]]
    /\ target \in {[d \in IDs |-> IF d = "d1" THEN t ELSE u] :
                      t \in Contents \cup {NoFile}, u \in {"a", NoFile}}
    /\ pc = "idle"
    /\ mode = "check"
    /\ which = {}
    /\ lk = FreshLock
    /\ now = 0
    /\ exit = 0
    /\ i = 1
    /\ runs = 0
    /\ events = 0
    /\ hist = FreshHist("other", NoOutcome, FALSE)

SpecTwins == InitTwins /\ [][Next]_vars

\* what the outcome of Check may depend on is the same for a and b: effective
\* policy, handler, recorded remote fingerprint or its absence, the source's
\* current state, and whether the target exists
SameForCheck(a, b) ==
    /\ EffectivePolicy(a) = EffectivePolicy(b)
    /\ DatasetOf(a).type = DatasetOf(b).type
    /\ HasItem(hist.lk0.Items, a) = HasItem(hist.lk0.Items, b)
    /\ ItemOrZero(hist.lk0.Items, a).RemoteFingerprint
          = ItemOrZero(hist.lk0.Items, b).RemoteFingerprint
    /\ remote[a] = remote[b]
    /\ fileExists(hist.target0[a]) = fileExists(hist.target0[b])

\* a and b differ in the recorded local hash or in the content of the target
DifferLocally(a, b) ==
    \/ ItemOrZero(hist.lk0.Items, a).LocalSHA256 # ItemOrZero(hist.lk0.Items, b).LocalSHA256
    \/ hist.target0[a] # hist.target0[b]

DefaultConfigs ==
    { [valid |-> TRUE, defaults |-> dflt,
       datasets |-> << [id |-> "d1", policy |-> p1, type |-> "mock", sources |-> <<>>],
                       [id |-> "d2", policy |-> k2[1], type |-> k2[2], sources |-> <<>>] >>] :
      dflt \in {"", "log"}, p1 \in {"", "update", "fail"}, k2 \in DatasetKinds }

InitDefaults ==
    /\ cfgFile \in DefaultConfigs
    /\ lockFile \in {AbsentFile, Marshal(PinnedLock)}
    /\ tmpFile = AbsentFile
    /\ remote = [d \in IDs |-> [content |-> "a", fpOk |-> TRUE, fetchOk |-> TRUE]]
    /\ target \in {[d \in IDs |-> NoFile], [d \in IDs |-> "a"]}
    /\ lockFile.kind # "ok" => target = [d \in IDs |-> NoFile]
    /\ pc = "idle"
    /\ mode = "check"
    /\ which = {}
    /\ lk = FreshLock
    /\ now = 0
    /\ exit = 0
    /\ i = 1
    /\ runs = 0
    /\ events = 0
    /\ hist = FreshHist("other", NoOutcome, FALSE)

SpecDefaults == InitDefaults /\ [][Next]_vars

\* the policy the claim gives dataset d: its own, else the default of the
\* configuration file, else fail
ClaimedPolicy(d) ==
    IF DatasetOf(d).policy # "" THEN DatasetOf(d).policy
    ELSE IF cfgFile.defaults # "" THEN cfgFile.defaults
    ELSE "fail"

\* C38: every dataset is evaluated under its own policy when it has one,
\* otherwise under the default policy of the configuration, otherwise under
\* fail: the policy of the switch is that one, and the outcome of a Check run
\* for the dataset is one that policy produces.
C38_EffectivePolicyDefaultsToFail ==
    /\ (pc = "loop" /\ i <= Len(Datasets)) => policy = ClaimedPolicy(ds.id)
    /\ (mode = "check" /\ pc \notin {"idle", "panicked"} /\ ~Cfg.err) =>
          \A d \in Configured :
              /\ hist.outcome[d] = "stale" => ClaimedPolicy(d) = "log"
              /\ hist.outcome[d] \in {"refreshed", "fetch-failed"} => ClaimedPolicy(d) = "update"
              /\ hist.outcome[d] = "drift" => ClaimedPolicy(d) \notin {"update", "log"}
              /\ hist.outcome[d] = "warned" => ClaimedPolicy(d) \notin {"update", "log", "fail"}
              /\ hist.outcome[d] = "up-to-date" => ClaimedPolicy(d) \in {"update", "log", "fail"}

\* a Check run on a configuration with no default policy reported a drift
\* for a dataset without a policy and raised the status
C38_Witness ==
    /\ Returned /\ mode = "check" /\ hist.saved
    /\ cfgFile.defaults = ""
    /\ DatasetOf("d1").policy = ""
    /\ hist.outcome["d1"] = "drift"
    /\ exit = 1

\* ================================================================ C39
\* ---------------------------------------------------------------- git handler: resolving source.ref
\* A reference name is the sequence of its path components: "refs/heads/main"
\* is <<"refs", "heads", "main">>, the short name "main" is <<"main">>.
ShortNames == {"main", "v1"}
RefInputs == {<<n>> : n \in ShortNames} \cup {<<"refs", "tags", "v1">>, <<"refs", "heads", "main">>}
RepoRefs == {<<"refs", k, n>> : k \in {"heads", "tags"}, n \in ShortNames}
                \cup {<<"refs", "remotes", "origin", n>> : n \in ShortNames}
NoCommit == << >>

\* strings.HasPrefix(name, "refs/") and strings.HasPrefix(name, "refs/heads/")
HasRefsPrefix(name) == Len(name) >= 2 /\ name[1] = "refs"
HasHeadsPrefix(name) == Len(name) >= 3 /\ name[1] = "refs" /\ name[2] = "heads"

NewBranchReferenceName(n) == <<"refs", "heads">> \o n
NewTagReferenceName(n) == <<"refs", "tags">> \o n

\* the commit a reference of the repository points to (tags peeled)
CommitOf(ref) == <<"commit of">> \o ref

\* parseGitSource: the reference name for source.ref
parseGitSource(ref) ==
    IF HasRefsPrefix(ref) THEN ref ELSE NewBranchReferenceName(ref)

\* resolveRefCommit: repo.Reference(name); for a branch name the
\* remote-tracking reference; the tag only when name does not start with
\* "refs/"; otherwise "git: cannot resolve ref"
resolveRefCommit(repo, name) ==
    LET remoteName == <<"refs", "remotes", "origin">> \o SubSeq(name, 3, Len(name))
        tagName == NewTagReferenceName(name)
    IN  IF name \in repo THEN [commit |-> CommitOf(name), err |-> FALSE]
        ELSE IF HasHeadsPrefix(name) /\ remoteName \in repo
        THEN [commit |-> CommitOf(remoteName), err |-> FALSE]
        ELSE IF ~HasRefsPrefix(name) /\ tagName \in repo
        THEN [commit |-> CommitOf(tagName), err |-> FALSE]
        ELSE [commit |-> NoCommit, err |-> TRUE]

\* Here cfgFile is the git source (its ref), remote the set of references of
\* the cached repository after fetchAllRefs, mode the handler operation, and
\* exit what resolveRefCommit returned to it.
InitGit ==
    /\ cfgFile \in [Ref : RefInputs]
    /\ lockFile = AbsentFile
    /\ tmpFile = AbsentFile
    /\ remote \in SUBSET RepoRefs
    /\ target = [d \in IDs |-> NoFile]
    /\ pc = "git"
    /\ mode = "none"
    /\ which = {}
    /\ lk = FreshLock
    /\ now = 0
    /\ exit = [commit |-> NoCommit, err |-> FALSE]
    /\ i = 1
    /\ runs = 0
    /\ events = 0
    /\ hist = FreshHist("other", NoOutcome, FALSE)

GitResolve(op) ==
    /\ pc = "git"
    /\ mode' = op
    /\ exit' = resolveRefCommit(remote, parseGitSource(cfgFile.Ref))
    /\ pc' = "git-done"
    /\ UNCHANGED <<cfgFile, lockFile, tmpFile, remote, target, which, lk, now, i,
                   runs, events, hist>>

\* handler.Fingerprint: parseGitSource, ensureRepo, fetchAllRefs, resolveRefCommit
GitFingerprint == GitResolve("Fingerprint")

\* handler.Fetch: the same resolution before the blob is copied
GitFetch == GitResolve("Fetch")

NextGit ==
    \/ GitFingerprint
    \/ GitFetch

SpecGit == InitGit /\ [][NextGit]_vars

\* C39: for a short ref name with no branch and no remote-tracking branch of
\* that name in the repository and a tag of that name, Fingerprint and Fetch
\* resolve the ref to the commit of the tag instead of failing.
C39_ShortRefFallsBackToTag ==
    (/\ pc = "git-done"
     /\ ~HasRefsPrefix(cfgFile.Ref)
     /\ NewBranchReferenceName(cfgFile.Ref) \notin remote
     /\ <<"refs", "remotes", "origin">> \o cfgFile.Ref \notin remote
     /\ NewTagReferenceName(cfgFile.Ref) \in remote) =>
        /\ ~exit.err
        /\ exit.commit = CommitOf(NewTagReferenceName(cfgFile.Ref))

====
